---- MODULE Spec2Model ----
(***************************************************************************)
(* Model of the motion-analysis core of chin-up: the usePresage hook       *)
(* (sample buffers, rep detection, breathing analysis, predictions) and    *)
(* the squat / push-up form classifiers it is fed by.                      *)
(*                                                                         *)
(* Numbers.  JavaScript computes chestY and centerY with real division     *)
(* ((l + r) / 2 and (h + k + s) / 3).  To stay exact in the integers the   *)
(* model stores chestY2 = 2 * chestY and centerY6 = 6 * centerY and scales *)
(* every threshold they are compared with by the same factor.              *)
(***************************************************************************)
EXTENDS Integers, Sequences, FiniteSets, TLC

VARIABLES
    isActive,              \* prop isActive of usePresage
    exercise,              \* prop exercise of usePresage ("" = none selected)
    movementHistory,       \* movementHistoryRef.current
    repHistory,            \* repHistoryRef.current
    breathingHistory,      \* breathingHistoryRef.current
    lastRepTime,           \* lastRepTimeRef.current
    lastPredictionTime,    \* lastPredictionTimeRef.current
    lastBreathingAnalysis, \* lastBreathingAnalysisRef.current
    predictions,           \* useState predictions
    breathingRate,         \* useState breathingRate
    breathingConsistency,  \* useState breathingConsistency
    signalConfidence,      \* useState signalConfidence
    timer,                 \* due times of the live setInterval timers, oldest first
    now,                   \* Date.now()
    keypoints,             \* the frame the pose source delivered last
    pc,                    \* position of the per-frame callback
    workout,               \* the movement the user performs (a cycle of poses)
    frameMs,               \* period of the pose source
    step,                  \* index in workout of the frame delivered last
    horizon,               \* the time at which the observed run ends
    userActions,           \* how often the user has started, stopped or selected
    pollAt,                \* when the host calls getPredictions next
    cycleStart,            \* history: time at which the current cycle began
    cycleWarm,             \* history: trackRep had >= 10 samples all cycle long
    detected,              \* history: rep detections since the last reset
    recorded,              \* history: RepRecords appended since the last reset
    wasDirty,              \* history: the last reset discarded something
    lastOp,                \* history: the entry point called last
    ret,                   \* history: what getPredictions returned last
    form,                  \* history: what the classifier returned for a frame on its own
    queue,                 \* AudioQueue.queue: the clips waiting, oldest first
    isPlaying,             \* AudioQueue.isPlaying
    clip,                  \* per clip: where its Audio element and its promise are
    errorPending,          \* clips whose error event is queued, handler not yet run
    rejectPending          \* clips whose play() rejected, catch block not yet run

progVars == <<isActive, exercise, movementHistory, repHistory, breathingHistory,
              lastRepTime, lastPredictionTime, lastBreathingAnalysis, predictions,
              breathingRate, breathingConsistency, signalConfidence, timer>>
envVars == <<now, keypoints, pc, workout, frameMs, step, horizon, userActions,
            pollAt>>
histVars == <<cycleStart, cycleWarm, detected, recorded, wasDirty, lastOp, ret, form>>
audioVars == <<queue, isPlaying, clip, errorPending, rejectPending>>
vars == <<progVars, envVars, histVars, audioVars>>

----------------------------------------------------------------------------
(* Program constants *)

HISTORY_WINDOW == 3000
PREDICTION_INTERVAL == 5000
MIN_REPS_FOR_ANALYSIS == 3
BREATHING_ANALYSIS_INTERVAL == 3000
BREATHING_WINDOW == 10000
MAX_REPS == 10
MIN_HISTORY_FOR_REP == 10
MIN_HISTORY_FOR_PREDICTION == 20

(* null / undefined of a number-valued slot; coordinates and times are >= 0 *)
Null == 0 - 1

(* JavaScript truthiness of a number-or-null value: null and 0 are falsy *)
Truthy(v) == v # Null /\ v # 0

(* a || b on number-or-null values *)
OrElse(a, b) == IF Truthy(a) THEN a ELSE b

Abs(x) == IF x < 0 THEN 0 - x ELSE x

Min(a, b) == IF a < b THEN a ELSE b

RECURSIVE SumSeq(_)
SumSeq(s) == IF Len(s) = 0 THEN 0 ELSE Head(s) + SumSeq(Tail(s))

(* s.slice(-n) *)
LastN(s, n) == IF Len(s) <= n THEN s ELSE SubSeq(s, Len(s) - n + 1, Len(s))

(* s.filter(keep) *)
Filter(s, keep(_)) == SelectSeq(s, keep)

----------------------------------------------------------------------------
(* Keypoint frames.  A frame is what the pose source delivers: for each    *)
(* joint the y coordinate of the keypoint found with score > 0.3 (Null when *)
(* there is none), and the angles and distances the classifiers derive from *)
(* the joints' coordinates with calculateAngle / Math.sqrt.                 *)

NoPose ==
    [leftShoulder |-> Null, rightShoulder |-> Null, nose |-> Null,
     leftHip |-> Null, rightHip |-> Null, leftKnee |-> Null, rightKnee |-> Null,
     hasAnkle |-> FALSE, hasElbow |-> FALSE, hasWrist |-> FALSE,
     kneeAngle |-> 0, hipAngle |-> 0, kneeAnkleDx |-> 0, hipKneeDistance |-> 0,
     elbowAngle |-> 0, bodyAngle |-> 0, wristDx |-> 0, elbowDx |-> 0, elbowDy |-> 0]

(* a full-body side view: every joint found, no secondary form error *)
FullBody(shoulderY, hipY, kneeY, kneeAng, elbowAng) ==
    [leftShoulder |-> shoulderY, rightShoulder |-> shoulderY, nose |-> shoulderY - 40,
     leftHip |-> hipY, rightHip |-> hipY, leftKnee |-> kneeY, rightKnee |-> kneeY,
     hasAnkle |-> TRUE, hasElbow |-> TRUE, hasWrist |-> TRUE,
     kneeAngle |-> kneeAng, hipAngle |-> 170, kneeAnkleDx |-> 5, hipKneeDistance |-> 100,
     elbowAngle |-> elbowAng, bodyAngle |-> 175, wristDx |-> 0, elbowDx |-> 10, elbowDy |-> 60]

(* squat poses: shoulders and hips sink (y grows) as the knees bend *)
Standing    == FullBody(90, 245, 350, 175, 175)
SquatTop    == FullBody(100, 250, 350, 150, 175)
SquatMid    == FullBody(150, 285, 350, 110, 175)
SquatBottom == FullBody(200, 330, 350, 80, 175)
(* half way up: centerY exactly 30 above SquatTop's *)
SquatHalf   == FullBody(150, 290, 350, 110, 175)

(* push-up poses: shoulders sink as the elbows bend *)
PushUpTop    == FullBody(200, 230, 260, 175, 175)
PushUpHigh   == FullBody(215, 235, 260, 175, 165)
PushUpMid    == FullBody(240, 245, 260, 175, 130)
PushUpBottom == FullBody(280, 260, 265, 175, 90)

(* the upper body is out of view: hips, knees and ankles only *)
HipsOnly ==
    [FullBody(200, 230, 260, 175, 175) EXCEPT
        !.leftShoulder = Null, !.rightShoulder = Null, !.nose = Null,
        !.hasElbow = FALSE, !.hasWrist = FALSE]

(* only the face is in view *)
FaceOnly == [NoPose EXCEPT !.nose = 120]

(* a faulty variant of Present: a joint counts as found although no keypoint is *)
PresentBug(joint) == TRUE

Present(joint) == joint # Null

(* which sides of a joint the pose source resolved *)
Sides == {"both", "right", "none"}
LeftOf(side, y) == IF side = "both" THEN y ELSE Null
RightOf(side, y) == IF side = "none" THEN Null ELSE y

(* frames for the squat classifier: every combination of resolved joints, knee
   angles at and around 70 / 100 / 160, hip angles around 150, knee-over-ankle offsets
   around 0.3 of the thigh length *)
SquatFrames ==
    { [FullBody(100, 250, 350, kneeAng, 175) EXCEPT
          !.leftShoulder = LeftOf(sh, 100), !.rightShoulder = RightOf(sh, 100),
          !.leftHip = LeftOf(hp, 250), !.rightHip = RightOf(hp, 250),
          !.leftKnee = LeftOf(kn, 350), !.rightKnee = RightOf(kn, 350),
          !.hasAnkle = an, !.hipAngle = hipAng, !.kneeAnkleDx = dx] :
      sh \in Sides, hp \in Sides, kn \in Sides, an \in BOOLEAN,
      kneeAng \in {60, 65, 69, 70, 90, 99, 100, 120, 160, 161, 170},
      hipAng \in {140, 170}, dx \in {5, 40} }

(* frames for the push-up classifier: every combination of resolved joints, elbow
   angles around 80 / 100 / 140 / 170, body angles around 160, wrists up to 60 behind
   the shoulders, elbows flared or not *)
PushUpFrames ==
    { [FullBody(200, 230, 260, 175, elbowAng) EXCEPT
          !.leftShoulder = LeftOf(sh, 200), !.rightShoulder = RightOf(sh, 200),
          !.leftHip = LeftOf(hp, 230), !.rightHip = RightOf(hp, 230),
          !.hasAnkle = an, !.hasElbow = el, !.hasWrist = wr,
          !.bodyAngle = bodyAng, !.wristDx = wdx, !.elbowDx = edx] :
      sh \in Sides, hp \in {"both", "none"}, an \in BOOLEAN, el \in BOOLEAN,
      wr \in BOOLEAN, elbowAng \in {75, 90, 120, 150, 175}, bodyAng \in {150, 175},
      wdx \in {0 - 60, 0}, edx \in {10, 100} }

Frames == SquatFrames \cup PushUpFrames

----------------------------------------------------------------------------
(* Form classifiers *)

NeutralResult == [feedback |-> "", isValid |-> FALSE, angles |-> {}]

(* a faulty variant of SquatDepth: a knee angle of exactly 160 counts as too shallow *)
SquatDepthBug(kneeAngle) ==
    IF kneeAngle >= 160
    THEN [feedback |-> "Bend your knees more to go deeper into the squat",
          isValid |-> FALSE]
    ELSE IF kneeAngle < 70
    THEN [feedback |-> "Great depth! Keep your knees aligned with your toes",
          isValid |-> TRUE]
    ELSE IF kneeAngle < 100
    THEN [feedback |-> "Good form! You're getting deep into the squat",
          isValid |-> TRUE]
    ELSE [feedback |-> "You're doing great! Keep it up!", isValid |-> TRUE]

(* analyzeSquat: knee angle analysis (for squat depth) *)
SquatDepth(kneeAngle) ==
    IF kneeAngle > 160
    THEN [feedback |-> "Bend your knees more to go deeper into the squat",
          isValid |-> FALSE]
    ELSE IF kneeAngle < 70
    THEN [feedback |-> "Great depth! Keep your knees aligned with your toes",
          isValid |-> TRUE]
    ELSE IF kneeAngle < 100
    THEN [feedback |-> "Good form! You're getting deep into the squat",
          isValid |-> TRUE]
    ELSE [feedback |-> "You're doing great! Keep it up!", isValid |-> TRUE]

(* analyzePushUp: elbow angle analysis (for push-up depth) *)
PushUpDepth(elbowAngle) ==
    IF elbowAngle > 170
    THEN [feedback |-> "Lower your body more to get full range of motion",
          isValid |-> FALSE]
    ELSE IF elbowAngle < 80
    THEN [feedback |-> "Excellent depth! You're going all the way down",
          isValid |-> TRUE]
    ELSE IF elbowAngle < 100
    THEN [feedback |-> "Good depth! Keep your body straight", isValid |-> TRUE]
    ELSE IF elbowAngle < 140
    THEN [feedback |-> "You're doing great! Try to go a bit deeper",
          isValid |-> TRUE]
    ELSE [feedback |-> "Lower your body more for a complete push-up",
          isValid |-> FALSE]

(* a faulty variant of AnalyzeSquat: the back check runs after the knee-alignment
   check *)
AnalyzeSquatBug(kp) ==
    LET hip == Present(kp.leftHip) \/ Present(kp.rightHip)
        knee == Present(kp.leftKnee) \/ Present(kp.rightKnee)
        ankle == kp.hasAnkle
        shoulder == Present(kp.leftShoulder) \/ Present(kp.rightShoulder)
        kneeAngle == kp.kneeAngle
        hipAngle == IF shoulder THEN kp.hipAngle ELSE Null
        depth == SquatDepth(kneeAngle)
        (* alignmentRatio = kneeAnkleAlignment / (hipKneeDistance || 1) > 0.3 *)
        alignment ==
            IF 10 * kp.kneeAnkleDx > 3 * OrElse(kp.hipKneeDistance, 1)
            THEN [feedback |-> "Keep your knees aligned with your toes, don't let them cave in",
                  isValid |-> FALSE]
            ELSE depth
        back ==
            IF hipAngle # Null /\ hipAngle < 150
            THEN [feedback |-> "Keep your back straight and chest up", isValid |-> FALSE]
            ELSE alignment
    IN  IF ~hip \/ ~knee \/ ~ankle
        THEN NeutralResult
        ELSE [feedback |-> back.feedback, isValid |-> back.isValid,
              angles |-> {<<"kneeAngle", kneeAngle>>, <<"hipAngle", hipAngle>>}]

AnalyzeSquat(kp) ==
    LET hip == Present(kp.leftHip) \/ Present(kp.rightHip)
        knee == Present(kp.leftKnee) \/ Present(kp.rightKnee)
        ankle == kp.hasAnkle
        shoulder == Present(kp.leftShoulder) \/ Present(kp.rightShoulder)
        kneeAngle == kp.kneeAngle
        hipAngle == IF shoulder THEN kp.hipAngle ELSE Null
        depth == SquatDepth(kneeAngle)
        back ==
            IF hipAngle # Null /\ hipAngle < 150
            THEN [feedback |-> "Keep your back straight and chest up", isValid |-> FALSE]
            ELSE depth
        (* alignmentRatio = kneeAnkleAlignment / (hipKneeDistance || 1) > 0.3 *)
        alignment ==
            IF 10 * kp.kneeAnkleDx > 3 * OrElse(kp.hipKneeDistance, 1)
            THEN [feedback |-> "Keep your knees aligned with your toes, don't let them cave in",
                  isValid |-> FALSE]
            ELSE back
    IN  IF ~hip \/ ~knee \/ ~ankle
        THEN NeutralResult
        ELSE [feedback |-> alignment.feedback, isValid |-> alignment.isValid,
              angles |-> {<<"kneeAngle", kneeAngle>>, <<"hipAngle", hipAngle>>}]

(* a faulty variant of AnalyzePushUp: a body line that passes its check makes the frame
   valid again *)
AnalyzePushUpBug(kp) ==
    LET shoulder == Present(kp.leftShoulder) \/ Present(kp.rightShoulder)
        elbow == kp.hasElbow
        wrist == kp.hasWrist
        hip == Present(kp.leftHip) \/ Present(kp.rightHip)
        ankle == kp.hasAnkle
        elbowAngle == kp.elbowAngle
        depth == PushUpDepth(elbowAngle)
        body ==
            IF hip /\ ankle /\ kp.bodyAngle < 160
            THEN [feedback |-> "Keep your body in a straight line from head to toe",
                  isValid |-> FALSE]
            ELSE IF hip /\ ankle
            THEN [feedback |-> depth.feedback, isValid |-> TRUE]
            ELSE depth
        (* wrist.x < shoulder.x - 50 *)
        hands ==
            IF kp.wristDx < 0 - 50
            THEN [feedback |-> "Keep your hands directly under your shoulders",
                  isValid |-> FALSE]
            ELSE body
        (* flareRatio = horizontalDistance / (verticalDistance || 1) > 1.5 *)
        flare ==
            IF 2 * kp.elbowDx > 3 * OrElse(kp.elbowDy, 1)
            THEN [feedback |-> "Keep your elbows closer to your body, not flared out",
                  isValid |-> FALSE]
            ELSE hands
    IN  IF ~shoulder \/ ~elbow \/ ~wrist
        THEN NeutralResult
        ELSE [feedback |-> flare.feedback, isValid |-> flare.isValid,
              angles |-> {<<"elbowAngle", elbowAngle>>}]

AnalyzePushUp(kp) ==
    LET shoulder == Present(kp.leftShoulder) \/ Present(kp.rightShoulder)
        elbow == kp.hasElbow
        wrist == kp.hasWrist
        hip == Present(kp.leftHip) \/ Present(kp.rightHip)
        ankle == kp.hasAnkle
        elbowAngle == kp.elbowAngle
        depth == PushUpDepth(elbowAngle)
        body ==
            IF hip /\ ankle /\ kp.bodyAngle < 160
            THEN [feedback |-> "Keep your body in a straight line from head to toe",
                  isValid |-> FALSE]
            ELSE depth
        (* wrist.x < shoulder.x - 50 *)
        hands ==
            IF kp.wristDx < 0 - 50
            THEN [feedback |-> "Keep your hands directly under your shoulders",
                  isValid |-> FALSE]
            ELSE body
        (* flareRatio = horizontalDistance / (verticalDistance || 1) > 1.5 *)
        flare ==
            IF 2 * kp.elbowDx > 3 * OrElse(kp.elbowDy, 1)
            THEN [feedback |-> "Keep your elbows closer to your body, not flared out",
                  isValid |-> FALSE]
            ELSE hands
    IN  IF ~shoulder \/ ~elbow \/ ~wrist
        THEN NeutralResult
        ELSE [feedback |-> flare.feedback, isValid |-> flare.isValid,
              angles |-> {<<"elbowAngle", elbowAngle>>}]

NoExercise == "none"
Exercises == {"squat", "push-up"}
(* a selection that no switch of the code knows *)
UnknownExercise == "lunge"
(* what the exercise prop can be *)
Selections == Exercises \cup {UnknownExercise, NoExercise}

(* useFormAnalysis: analyzeForm(keypoints) for the selected exercise *)
AnalyzeForm(ex, kp) ==
    IF kp = NoPose \/ ex = NoExercise THEN NeutralResult
    ELSE IF ex = "squat" THEN AnalyzeSquat(kp)
    ELSE IF ex = "push-up" THEN AnalyzePushUp(kp)
    ELSE NeutralResult

----------------------------------------------------------------------------
(* usePresage: data points *)

NoDataPoint ==
    [isNull |-> TRUE, timestamp |-> Null, hipY |-> Null, kneeY |-> Null,
     shoulderY |-> Null, chestY2 |-> Null, centerY6 |-> Null, hasFullBody |-> FALSE]

(* createDataPoint(keypoints, timestamp); chestY2 = 2 * chestY, centerY6 = 6 * centerY *)
CreateDataPoint(kp, timestamp) ==
    LET hasUpperBody == Present(kp.leftShoulder) \/ Present(kp.rightShoulder) \/ Present(kp.nose)
        hasLowerBody == Present(kp.leftHip) \/ Present(kp.rightHip)
        chestY2 ==
            IF Present(kp.leftShoulder) /\ Present(kp.rightShoulder)
            THEN kp.leftShoulder + kp.rightShoulder
            ELSE IF Present(kp.leftShoulder) THEN 2 * kp.leftShoulder
            ELSE IF Present(kp.rightShoulder) THEN 2 * kp.rightShoulder
            ELSE IF Present(kp.nose) THEN 2 * (kp.nose + 50)
            ELSE Null
        hip == IF Present(kp.leftHip) THEN kp.leftHip ELSE kp.rightHip
        knee == IF Present(kp.leftKnee) THEN kp.leftKnee ELSE kp.rightKnee
        shoulder == IF Present(kp.leftShoulder) THEN kp.leftShoulder ELSE kp.rightShoulder
    IN  IF kp = NoPose \/ (~hasUpperBody /\ ~hasLowerBody)
        THEN NoDataPoint
        ELSE [isNull |-> FALSE,
              timestamp |-> timestamp,
              hipY |-> OrElse(hip, Null),
              kneeY |-> OrElse(knee, Null),
              shoulderY |-> OrElse(shoulder, Null),
              chestY2 |-> chestY2,
              centerY6 |->
                  IF hasLowerBody
                  THEN 2 * (OrElse(hip, 0) + OrElse(knee, OrElse(hip, 0))
                            + OrElse(shoulder, OrElse(hip, 0)))
                  ELSE 3 * chestY2,
              hasFullBody |-> hasLowerBody /\ hasUpperBody]

(* a faulty variant of NewerThan: the cutoff compared with >= *)
NewerThanBug(history, cutoff) ==
    LET keep(point) == point.timestamp >= cutoff
    IN  Filter(history, keep)

(* history.filter(point => point.timestamp > cutoff) *)
NewerThan(history, cutoff) ==
    LET keep(point) == point.timestamp > cutoff
    IN  Filter(history, keep)

----------------------------------------------------------------------------
(* usePresage: rep detection *)

(* a faulty variant of LowestSquat: the reduce keeps the highest point of the window *)
RECURSIVE LowestSquatBug(_, _)
LowestSquatBug(min, rest) ==
    IF rest = <<>> THEN min
    ELSE LowestSquatBug(IF Head(rest).centerY6 < min.centerY6 THEN Head(rest) ELSE min,
                        Tail(rest))

(* history.reduce((min, point) => point.centerY > min.centerY ? point : min) *)
RECURSIVE LowestSquat(_, _)
LowestSquat(min, rest) ==
    IF rest = <<>> THEN min
    ELSE LowestSquat(IF Head(rest).centerY6 > min.centerY6 THEN Head(rest) ELSE min,
                     Tail(rest))

(* a faulty variant of LowestPushUp: a point with a shoulderY replaces an accumulator
   without one *)
RECURSIVE LowestPushUpBug(_, _)
LowestPushUpBug(min, rest) ==
    IF rest = <<>> THEN min
    ELSE LowestPushUpBug(
             IF Truthy(Head(rest).shoulderY)
             THEN (IF ~Truthy(min.shoulderY) \/ Head(rest).shoulderY > min.shoulderY
                   THEN Head(rest) ELSE min)
             ELSE min,
             Tail(rest))

(* history.reduce((min, point) => point.shoulderY && min.shoulderY ? (...) : min) *)
RECURSIVE LowestPushUp(_, _)
LowestPushUp(min, rest) ==
    IF rest = <<>> THEN min
    ELSE LowestPushUp(
             IF Truthy(Head(rest).shoulderY) /\ Truthy(min.shoulderY)
             THEN (IF Head(rest).shoulderY > min.shoulderY THEN Head(rest) ELSE min)
             ELSE min,
             Tail(rest))

(* squat: isAtBottom = Math.abs(dataPoint.centerY - lowestPoint.centerY) < 20 *)
SquatIsAtBottom(history, dataPoint) ==
    LET lowestPoint == LowestSquat(Head(history), Tail(history))
    IN  Abs(dataPoint.centerY6 - lowestPoint.centerY6) < 6 * 20

(* squat: wasLower = history.slice(-5).some(p => p.centerY > dataPoint.centerY + 30) *)
SquatWasLower(history, dataPoint) ==
    LET recentPoints == LastN(history, 5)
    IN  \E i \in 1..Len(recentPoints) :
            recentPoints[i].centerY6 > dataPoint.centerY6 + 6 * 30

(* push-up: isAtBottom = Math.abs(dataPoint.shoulderY - lowestPoint.shoulderY) < 20 *)
PushUpIsAtBottom(history, dataPoint) ==
    LET lowestPoint == LowestPushUp(Head(history), Tail(history))
    IN  Abs(dataPoint.shoulderY - lowestPoint.shoulderY) < 20

(* push-up: wasLower = history.slice(-5).some(p => p.shoulderY && dataPoint.shoulderY
   && p.shoulderY > dataPoint.shoulderY + 30) *)
PushUpWasLower(history, dataPoint) ==
    LET recentPoints == LastN(history, 5)
    IN  \E i \in 1..Len(recentPoints) :
            /\ Truthy(recentPoints[i].shoulderY)
            /\ Truthy(dataPoint.shoulderY)
            /\ recentPoints[i].shoulderY > dataPoint.shoulderY + 30

(* a faulty variant of SquatRepDetected: the FormResult is not part of the condition *)
SquatRepDetectedAnyForm(history, dataPoint, formAnalysis) ==
    LET lowestPoint == LowestSquat(Head(history), Tail(history))
        isAtBottom == Abs(dataPoint.centerY6 - lowestPoint.centerY6) < 6 * 20
        recentPoints == LastN(history, 5)
        wasLower == \E i \in 1..Len(recentPoints) :
                        recentPoints[i].centerY6 > dataPoint.centerY6 + 6 * 30
    IN  wasLower /\ ~isAtBottom

(* a faulty variant of SquatRepDetected: wasLower compares with >= *)
SquatRepDetectedBug(history, dataPoint, formAnalysis) ==
    LET lowestPoint == LowestSquat(Head(history), Tail(history))
        isAtBottom == Abs(dataPoint.centerY6 - lowestPoint.centerY6) < 6 * 20
        recentPoints == LastN(history, 5)
        wasLower == \E i \in 1..Len(recentPoints) :
                        recentPoints[i].centerY6 >= dataPoint.centerY6 + 6 * 30
    IN  wasLower /\ ~isAtBottom /\ formAnalysis.isValid

(* the squat branch's condition wasLower && !isAtBottom && formAnalysis?.isValid *)
SquatRepDetected(history, dataPoint, formAnalysis) ==
    LET isAtBottom == SquatIsAtBottom(history, dataPoint)
        wasLower == SquatWasLower(history, dataPoint)
    IN  wasLower /\ ~isAtBottom /\ formAnalysis.isValid

(* the push-up branch's condition wasLower && !isAtBottom && isAtTop && formAnalysis?.isValid *)
PushUpRepDetected(history, dataPoint, kp, formAnalysis) ==
    LET lowestPoint == LowestPushUp(Head(history), Tail(history))
        isAtBottom == PushUpIsAtBottom(history, dataPoint)
        wasLower == PushUpWasLower(history, dataPoint)
        shoulder == Present(kp.leftShoulder) \/ Present(kp.rightShoulder)
        isAtTop == kp.elbowAngle > 160
    IN  /\ Truthy(dataPoint.shoulderY)
        /\ Truthy(lowestPoint.shoulderY)
        /\ shoulder /\ kp.hasElbow /\ kp.hasWrist
        /\ wasLower /\ ~isAtBottom /\ isAtTop /\ formAnalysis.isValid

(* whether this call of trackRep reaches "Rep completed" *)
RepDetected(active, ex, history, kp, formAnalysis, t) ==
    LET dataPoint == CreateDataPoint(kp, t)
    IN  /\ active /\ ex # NoExercise /\ kp # NoPose
        /\ ~dataPoint.isNull
        /\ Len(history) >= MIN_HISTORY_FOR_REP
        /\ IF ex = "squat" THEN SquatRepDetected(history, dataPoint, formAnalysis)
           ELSE IF ex = "push-up" THEN PushUpRepDetected(history, dataPoint, kp, formAnalysis)
           ELSE FALSE

(* a faulty variant of PushRep: pop() in place of shift() *)
PushRepBug(reps, rep) ==
    LET pushed == Append(reps, rep)
    IN  IF Len(pushed) > MAX_REPS THEN SubSeq(pushed, 1, MAX_REPS) ELSE pushed

(* repHistoryRef.current.push(rep); if (length > 10) shift() *)
PushRep(reps, rep) ==
    LET pushed == Append(reps, rep)
    IN  IF Len(pushed) > MAX_REPS THEN Tail(pushed) ELSE pushed

(* a faulty variant of RepsAfterDetection: the record is stamped with the time of the
   detection before *)
RepsAfterDetectionStale(reps, lastRep, formAnalysis, t) ==
    IF Truthy(lastRep)
    THEN PushRep(reps, [timestamp |-> lastRep,
                        duration |-> t - lastRep,
                        formQuality |-> IF formAnalysis.isValid THEN "good" ELSE "poor"])
    ELSE reps

(* a faulty variant of RepsAfterDetection: formQuality is taken the wrong way round *)
RepsAfterDetectionBug(reps, lastRep, formAnalysis, t) ==
    IF Truthy(lastRep)
    THEN PushRep(reps, [timestamp |-> t,
                        duration |-> t - lastRep,
                        formQuality |-> IF formAnalysis.isValid THEN "poor" ELSE "good"])
    ELSE reps

(* the body of "Rep completed": the record is built only if a previous rep time exists *)
RepsAfterDetection(reps, lastRep, formAnalysis, t) ==
    IF Truthy(lastRep)
    THEN PushRep(reps, [timestamp |-> t,
                        duration |-> t - lastRep,
                        formQuality |-> IF formAnalysis.isValid THEN "good" ELSE "poor"])
    ELSE reps

----------------------------------------------------------------------------
(* usePresage: predictions *)

(* the value null of analyzeAndPredict / getPredictions / the predictions state *)
NoPrediction == [fatigueLevel |-> "null", riskOfMistake |-> "null", suggestions |-> <<>>]

Suggestion(type, message, count, priority) ==
    [type |-> type, message |-> message, count |-> count, priority |-> priority]

(* s.map(f) *)
MapSeq(s, f(_)) == [i \in 1..Len(s) |-> f(s[i])]

Duration(rep) == rep.duration
Square(x) == x * x
CenterY6(point) == point.centerY6
ChestY2(point) == point.chestY2

(* n * n * variance of the numbers in s, n = Len(s) *)
ScaledVariance(s) == Len(s) * SumSeq(MapSeq(s, Square)) - Square(SumSeq(s))

(* a faulty variant of InsufficientEvidence: && in place of || *)
InsufficientEvidenceBug(history, reps) ==
    Len(history) < MIN_HISTORY_FOR_PREDICTION /\ Len(reps) < MIN_REPS_FOR_ANALYSIS

(* history.length < 20 || reps.length < MIN_REPS_FOR_ANALYSIS *)
InsufficientEvidence(history, reps) ==
    Len(history) < MIN_HISTORY_FOR_PREDICTION \/ Len(reps) < MIN_REPS_FOR_ANALYSIS

(* a faulty variant of IsMilestone: every third rep is a milestone *)
IsMilestoneBug(reps) == Len(reps) > 0 /\ Len(reps) % 3 = 0

(* reps.length > 0 && reps.length % 5 === 0 *)
IsMilestone(reps) == Len(reps) > 0 /\ Len(reps) % 5 = 0

(* a faulty variant of AnalyzeAndPredict: the medium-risk rule runs after the high-risk
   rule and downgrades it *)
AnalyzeAndPredictBug(active, ex, history, reps) ==
    IF ~active \/ ex = NoExercise THEN NoPrediction
    ELSE IF InsufficientEvidence(history, reps) THEN NoPrediction
    ELSE
    LET recentReps == LastN(reps, 5)
        n == Len(recentReps)
        sumAll == SumSeq(MapSeq(recentReps, Duration))
        sumLast3 == SumSeq(MapSeq(LastN(recentReps, 3), Duration))
        (* speedTrend > avgRepDuration * 1.2, with speedTrend = sumLast3 / 3 when
           n >= 3 and avgRepDuration = sumAll / n *)
        speedIncrease == IF n >= 3 THEN 10 * n * sumLast3 > 36 * sumAll ELSE FALSE
        good == Len(SelectSeq(recentReps, LAMBDA rep : rep.formQuality = "good"))
        (* good / n < 0.6 *)
        formDeclining == 10 * good < 6 * n
        centerYValues == MapSeq(LastN(history, 30), CenterY6)
        (* variance > 1000, on values scaled by 6 *)
        highVariability ==
            ScaledVariance(centerYValues) > 1000 * 36 * Square(Len(centerYValues))
        s1 == IF speedIncrease /\ n >= 3
              THEN <<Suggestion("fatigue", "slowing down", 0, "medium")>> ELSE <<>>
        s2 == IF speedIncrease /\ formDeclining
              THEN <<Suggestion("fatigue", "take a short break", 0, "high")>> ELSE <<>>
        s3 == IF formDeclining /\ ~speedIncrease
              THEN <<Suggestion("form", "focus on form", 0, "medium")>> ELSE <<>>
        s4 == IF highVariability /\ formDeclining
              THEN <<Suggestion("form", "posture may weaken", 0, "high")>> ELSE <<>>
        s5 == IF IsMilestone(reps)
              THEN <<Suggestion("encouragement", "completed reps", Len(reps), "low")>>
              ELSE <<>>
        suggestions == s1 \o s2 \o s3 \o s4 \o s5
    IN  IF suggestions = <<>> THEN NoPrediction
        ELSE [fatigueLevel |-> IF speedIncrease /\ formDeclining THEN "high"
                               ELSE IF speedIncrease /\ n >= 3 THEN "medium" ELSE "low",
              riskOfMistake |-> IF formDeclining /\ ~speedIncrease THEN "medium"
                                ELSE IF highVariability /\ formDeclining THEN "high"
                                ELSE "low",
              suggestions |-> suggestions]

AnalyzeAndPredict(active, ex, history, reps) ==
    IF ~active \/ ex = NoExercise THEN NoPrediction
    ELSE IF InsufficientEvidence(history, reps) THEN NoPrediction
    ELSE
    LET recentReps == LastN(reps, 5)
        n == Len(recentReps)
        sumAll == SumSeq(MapSeq(recentReps, Duration))
        sumLast3 == SumSeq(MapSeq(LastN(recentReps, 3), Duration))
        (* speedTrend > avgRepDuration * 1.2, with speedTrend = sumLast3 / 3 when
           n >= 3 and avgRepDuration = sumAll / n *)
        speedIncrease == IF n >= 3 THEN 10 * n * sumLast3 > 36 * sumAll ELSE FALSE
        good == Len(SelectSeq(recentReps, LAMBDA rep : rep.formQuality = "good"))
        (* good / n < 0.6 *)
        formDeclining == 10 * good < 6 * n
        centerYValues == MapSeq(LastN(history, 30), CenterY6)
        (* variance > 1000, on values scaled by 6 *)
        highVariability ==
            ScaledVariance(centerYValues) > 1000 * 36 * Square(Len(centerYValues))
        s1 == IF speedIncrease /\ n >= 3
              THEN <<Suggestion("fatigue", "slowing down", 0, "medium")>> ELSE <<>>
        s2 == IF speedIncrease /\ formDeclining
              THEN <<Suggestion("fatigue", "take a short break", 0, "high")>> ELSE <<>>
        s3 == IF formDeclining /\ ~speedIncrease
              THEN <<Suggestion("form", "focus on form", 0, "medium")>> ELSE <<>>
        s4 == IF highVariability /\ formDeclining
              THEN <<Suggestion("form", "posture may weaken", 0, "high")>> ELSE <<>>
        s5 == IF IsMilestone(reps)
              THEN <<Suggestion("encouragement", "completed reps", Len(reps), "low")>>
              ELSE <<>>
        suggestions == s1 \o s2 \o s3 \o s4 \o s5
    IN  IF suggestions = <<>> THEN NoPrediction
        ELSE [fatigueLevel |-> IF speedIncrease /\ formDeclining THEN "high"
                               ELSE IF speedIncrease /\ n >= 3 THEN "medium" ELSE "low",
              riskOfMistake |-> IF highVariability /\ formDeclining THEN "high"
                                ELSE IF formDeclining /\ ~speedIncrease THEN "medium"
                                ELSE "low",
              suggestions |-> suggestions]

(* a faulty variant of Throttled: the wrong interval constant *)
ThrottledBug(t, last) == t - last < HISTORY_WINDOW

(* now - lastPredictionTimeRef.current < PREDICTION_INTERVAL *)
Throttled(t, last) == t - last < PREDICTION_INTERVAL

----------------------------------------------------------------------------
(* usePresage: breathing analysis *)

(* indices i (1-based, interior) where y[i] is a strict local maximum *)
Peaks(y) == {i \in 2..(Len(y) - 1) : y[i] > y[i - 1] /\ y[i] > y[i + 1]}
Valleys(y) == {i \in 2..(Len(y) - 1) : y[i] < y[i - 1] /\ y[i] < y[i + 1]}

(* the elements of a set of numbers in increasing order *)
RECURSIVE Sorted(_)
Sorted(S) ==
    IF S = {} THEN <<>>
    ELSE LET m == CHOOSE x \in S : \A z \in S : x <= z
         IN  <<m>> \o Sorted(S \ {m})

(* a faulty variant of ConfidenceOf: a stdDev of exactly 20 counts as medium *)
ConfidenceOfBug(chestPositions) ==
    LET v == ScaledVariance(chestPositions)
        nn == Square(Len(chestPositions))
    IN  IF v < 4 * 25 * nn THEN "low"
        ELSE IF v > 4 * 2500 * nn THEN "low"
        ELSE IF v >= 4 * 400 * nn THEN "medium"
        ELSE "high"

(* stdDev of chestY against 5 / 20 / 50, on values scaled by 2 *)
ConfidenceOf(chestPositions) ==
    LET v == ScaledVariance(chestPositions)
        nn == Square(Len(chestPositions))
    IN  IF v < 4 * 25 * nn THEN "low"
        ELSE IF v > 4 * 2500 * nn THEN "low"
        ELSE IF v > 4 * 400 * nn THEN "medium"
        ELSE "high"

(* a faulty variant of RateOf: exactly 25 cycles per minute counts as fast *)
RateOfBug(cycles, timeSpan) ==
    IF cycles * 60000 < 10 * timeSpan THEN "slow"
    ELSE IF cycles * 60000 >= 25 * timeSpan THEN "fast"
    ELSE "normal"

(* cyclesPerMinute = (cycles / timeSpan) * 60000 against 10 and 25 *)
RateOf(cycles, timeSpan) ==
    IF cycles * 60000 < 10 * timeSpan THEN "slow"
    ELSE IF cycles * 60000 > 25 * timeSpan THEN "fast"
    ELSE "normal"

(* a faulty variant of ConsistencyOf: a coefficient of variation of exactly 0.3 counts
   as erratic *)
ConsistencyOfBug(cycleDurations) ==
    IF 100 * ScaledVariance(cycleDurations) >= 9 * Square(SumSeq(cycleDurations))
    THEN "erratic" ELSE "steady"

(* coefficientOfVariation = durationStdDev / avgDuration > 0.3 *)
ConsistencyOf(cycleDurations) ==
    IF 100 * ScaledVariance(cycleDurations) > 9 * Square(SumSeq(cycleDurations))
    THEN "erratic" ELSE "steady"

(* a faulty variant of AnalyzeBreathing: the early exit puts rate and consistency
   back to their defaults *)
AnalyzeBreathingBug(data, rate, consistency, confidence) ==
    IF Len(data) < 30
    THEN [rate |-> "normal", consistency |-> "steady", confidence |-> "low"]
    ELSE [rate |-> rate, consistency |-> consistency,
          confidence |-> ConfidenceOf(MapSeq(data, ChestY2))]

(* a faulty variant of AnalyzeBreathing: the analysis goes on when only one of peaks and
   valleys has fewer than 2 entries *)
AnalyzeBreathingLooseGate(data, rate, consistency, confidence) ==
    LET chestPositions == MapSeq(data, ChestY2)
        peaks == Sorted(Peaks(chestPositions))
        valleys == Sorted(Valleys(chestPositions))
        timeSpan == data[Len(data)].timestamp - data[1].timestamp
        cycles == Min(Len(peaks), Len(valleys))
        cycleDurations ==
            [i \in 1..(Len(peaks) - 1) |->
                data[peaks[i + 1]].timestamp - data[peaks[i]].timestamp]
    IN  IF Len(data) < 30
        THEN [rate |-> rate, consistency |-> consistency, confidence |-> "low"]
        ELSE IF Len(peaks) < 2 /\ Len(valleys) < 2
        THEN [rate |-> rate, consistency |-> consistency,
              confidence |-> ConfidenceOf(chestPositions)]
        ELSE [rate |-> RateOf(cycles, timeSpan),
              consistency |-> IF Len(cycleDurations) >= 2
                              THEN ConsistencyOf(cycleDurations) ELSE consistency,
              confidence |-> ConfidenceOf(chestPositions)]

(* analyzeBreathing: the values of [rate, consistency, confidence] after the call *)
AnalyzeBreathing(data, rate, consistency, confidence) ==
    LET chestPositions == MapSeq(data, ChestY2)
        peaks == Sorted(Peaks(chestPositions))
        valleys == Sorted(Valleys(chestPositions))
        timeSpan == data[Len(data)].timestamp - data[1].timestamp
        cycles == Min(Len(peaks), Len(valleys))
        cycleDurations ==
            [i \in 1..(Len(peaks) - 1) |->
                data[peaks[i + 1]].timestamp - data[peaks[i]].timestamp]
    IN  IF Len(data) < 30
        THEN [rate |-> rate, consistency |-> consistency, confidence |-> "low"]
        ELSE IF Len(peaks) < 2 \/ Len(valleys) < 2
        THEN [rate |-> rate, consistency |-> consistency,
              confidence |-> ConfidenceOf(chestPositions)]
        ELSE [rate |-> RateOf(cycles, timeSpan),
              consistency |-> IF Len(cycleDurations) >= 2
                              THEN ConsistencyOf(cycleDurations) ELSE consistency,
              confidence |-> ConfidenceOf(chestPositions)]

----------------------------------------------------------------------------
(* The environment: the user's movement, the pose source, the clock *)

(* Date.now() at mount; any value of at least PREDICTION_INTERVAL behaves alike *)
StartTime == 5000
(* the observed run of Spec ends this long after mount *)
ShortRun == 3300
(* the observed run of SpecWorkout ends this long after mount *)
LongRun == 16500
(* time that passes without a frame (no pose found, tab in the background) *)
PauseMs == 2500
(* the user starts, stops or selects an exercise at most this often in a run *)
MaxUserActions == 3
(* getPredictions is "called periodically": the period of the host's calls *)
PollMs == 500
(* how long after mount the host's first call may come *)
PollPhases == {0, 3000}

FramePeriods == {150, 300}

Workouts ==
    { <<SquatBottom, SquatTop>>,
      <<SquatBottom, SquatBottom, SquatBottom, SquatTop, SquatTop, SquatTop>>,
      <<SquatTop, SquatMid, SquatBottom, SquatMid>>,
      <<SquatBottom, SquatBottom, SquatBottom, SquatBottom, SquatBottom, SquatTop>>,
      <<Standing, SquatMid, SquatBottom, SquatMid>>,
      <<SquatBottom, SquatHalf, SquatHalf, SquatHalf, SquatHalf, SquatTop>>,
      <<SquatBottom, SquatBottom, SquatBottom, SquatBottom, SquatBottom, SquatBottom,
        SquatBottom, SquatBottom, SquatBottom, SquatBottom, SquatTop>>,
      <<SquatBottom, SquatBottom, SquatBottom, SquatBottom, SquatBottom, SquatBottom,
        SquatBottom, SquatBottom, SquatBottom, SquatBottom, SquatBottom, SquatTop>>,
      <<PushUpTop, PushUpMid, PushUpBottom, PushUpMid, PushUpHigh>>,
      <<PushUpBottom, PushUpHigh>>,
      <<HipsOnly, PushUpMid, PushUpTop>>,
      <<FaceOnly, NoPose>> }

(* the movements observed in the runs of Spec *)
ShortWorkouts == { <<SquatBottom, SquatTop>>, <<FaceOnly, NoPose>> }

----------------------------------------------------------------------------
(* AudioQueue: the queue that plays the spoken feedback clips *)

(* the clips that are added in a run *)
MaxClips == 3
Clips == 1..MaxClips

(* new AudioQueue() *)
InitAudio ==
    /\ queue = <<>>
    /\ isPlaying = FALSE
    /\ clip = [c \in Clips |-> "new"]
    /\ errorPending = {}
    /\ rejectPending = {}

(* processQueue() up to its await: returns at once if a clip is playing or nothing
   waits; else takes the oldest clip and calls play() on a new Audio element *)
ProcessQueue(q, playing, cl) ==
    IF playing \/ q = <<>>
    THEN [queue |-> q, isPlaying |-> playing, clip |-> cl]
    ELSE [queue |-> Tail(q), isPlaying |-> TRUE,
          clip |-> [cl EXCEPT ![Head(q)] = "starting"]]

(* what onended, onerror and the catch block do: isPlaying = false; processQueue() *)
AfterClip(cl) == ProcessQueue(queue, FALSE, cl)

AudioOnly == UNCHANGED <<progVars, envVars, histVars>>

(* add(audioUrl): push, then processQueue() *)
Add(c) ==
    /\ clip[c] = "new"
    /\ \A d \in Clips : d < c => clip[d] # "new"
    /\ LET after == ProcessQueue(Append(queue, c), isPlaying, [clip EXCEPT ![c] = "queued"])
       IN  /\ queue' = after.queue
           /\ isPlaying' = after.isPlaying
           /\ clip' = after.clip
    /\ UNCHANGED <<errorPending, rejectPending>>
    /\ AudioOnly

(* await audio.play() resolves: playback has begun *)
PlayResolves(c) ==
    /\ clip[c] = "starting"
    /\ clip' = [clip EXCEPT ![c] = "playing"]
    /\ UNCHANGED <<queue, isPlaying, errorPending, rejectPending>>
    /\ AudioOnly

(* the browser refuses play() (no user gesture): the promise rejects, no error event *)
PlayBlocked(c) ==
    /\ clip[c] = "starting"
    /\ clip' = [clip EXCEPT ![c] = "failed"]
    /\ rejectPending' = rejectPending \cup {c}
    /\ UNCHANGED <<queue, isPlaying, errorPending>>
    /\ AudioOnly

(* the source cannot be loaded: the element fires error and the play() promise
   rejects; the two callbacks run later, in either order *)
LoadFails(c) ==
    /\ clip[c] = "starting"
    /\ clip' = [clip EXCEPT ![c] = "failed"]
    /\ errorPending' = errorPending \cup {c}
    /\ rejectPending' = rejectPending \cup {c}
    /\ UNCHANGED <<queue, isPlaying>>
    /\ AudioOnly

(* playback breaks off with a decoding or network error: the element fires error *)
DecodeFails(c) ==
    /\ clip[c] = "playing"
    /\ clip' = [clip EXCEPT ![c] = "failed"]
    /\ errorPending' = errorPending \cup {c}
    /\ UNCHANGED <<queue, isPlaying, rejectPending>>
    /\ AudioOnly

(* the clip plays to its end: audio.onended, which resolves the clip's promise *)
OnEnded(c) ==
    /\ clip[c] = "playing"
    /\ LET after == AfterClip([clip EXCEPT ![c] = "ended"])
       IN  /\ queue' = after.queue
           /\ isPlaying' = after.isPlaying
           /\ clip' = after.clip
    /\ UNCHANGED <<errorPending, rejectPending>>
    /\ AudioOnly

(* a faulty variant of OnError: the handler rejects and does not call processQueue() *)
OnErrorBug(c) ==
    /\ c \in errorPending
    /\ errorPending' = errorPending \ {c}
    /\ isPlaying' = FALSE
    /\ clip' = [clip EXCEPT ![c] = "rejected"]
    /\ UNCHANGED <<queue, rejectPending>>
    /\ AudioOnly

(* audio.onerror: isPlaying = false; reject(error); processQueue() *)
OnError(c) ==
    /\ c \in errorPending
    /\ errorPending' = errorPending \ {c}
    /\ LET after == AfterClip([clip EXCEPT ![c] = "rejected"])
       IN  /\ queue' = after.queue
           /\ isPlaying' = after.isPlaying
           /\ clip' = after.clip
    /\ UNCHANGED rejectPending
    /\ AudioOnly

(* the catch block of processQueue, after await audio.play() rejected:
   isPlaying = false; reject(error); processQueue() *)
CatchRejection(c) ==
    /\ c \in rejectPending
    /\ rejectPending' = rejectPending \ {c}
    /\ LET after == AfterClip([clip EXCEPT ![c] = "rejected"])
       IN  /\ queue' = after.queue
           /\ isPlaying' = after.isPlaying
           /\ clip' = after.clip
    /\ UNCHANGED errorPending
    /\ AudioOnly

----------------------------------------------------------------------------
(* Initial state: usePresage mounted, not active, no exercise selected *)

InitProg ==
    /\ isActive = FALSE
    /\ exercise = NoExercise
    /\ movementHistory = <<>>
    /\ repHistory = <<>>
    /\ breathingHistory = <<>>
    /\ lastRepTime = Null
    /\ lastPredictionTime = 0
    /\ lastBreathingAnalysis = 0
    /\ predictions = NoPrediction
    /\ breathingRate = "normal"
    /\ breathingConsistency = "steady"
    /\ signalConfidence = "medium"
    /\ timer = <<>>

InitHist ==
    /\ cycleStart = StartTime
    /\ cycleWarm = FALSE
    /\ detected = 0
    /\ recorded = 0
    /\ wasDirty = FALSE
    /\ lastOp = "mount"
    /\ ret = NoPrediction
    /\ form = NeutralResult

Init ==
    /\ InitProg
    /\ InitHist
    /\ InitAudio
    /\ now = StartTime
    /\ keypoints = NoPose
    /\ pc = "idle"
    /\ workout \in ShortWorkouts
    /\ frameMs \in FramePeriods
    /\ step = 0
    /\ horizon = StartTime + ShortRun
    /\ userActions = 0
    /\ pollAt \in {StartTime + d : d \in PollPhases}

----------------------------------------------------------------------------
(* Effects of usePresage *)

(* a faulty variant of ResetTracking: the breathing history and the cached prediction are
   not cleared *)
ResetTrackingBug ==
    /\ movementHistory' = <<>>
    /\ repHistory' = <<>>
    /\ lastRepTime' = Null
    /\ breathingRate' = "normal"
    /\ breathingConsistency' = "steady"
    /\ signalConfidence' = "medium"
    /\ UNCHANGED <<breathingHistory, predictions>>

(* the reset effect's body: runs when !isActive *)
ResetTracking ==
    /\ movementHistory' = <<>>
    /\ repHistory' = <<>>
    /\ breathingHistory' = <<>>
    /\ lastRepTime' = Null
    /\ predictions' = NoPrediction
    /\ breathingRate' = "normal"
    /\ breathingConsistency' = "steady"
    /\ signalConfidence' = "medium"

Dirty ==
    \/ movementHistory # <<>> \/ repHistory # <<>> \/ breathingHistory # <<>>
    \/ lastRepTime # Null \/ predictions # NoPrediction
    \/ breathingRate # "normal" \/ breathingConsistency # "steady"
    \/ signalConfidence # "medium"

(* a faulty variant of IntervalCleanup: the effect returns no cleanup *)
IntervalCleanupBug(wasActive, live) == live

(* the interval effect's cleanup, run before the effect runs again: clearInterval of
   the timer the previous run created, if it created one *)
IntervalCleanup(wasActive, live) ==
    IF wasActive /\ live # <<>> THEN SubSeq(live, 1, Len(live) - 1) ELSE live

(* the interval effect's body: if (!isActive) return; setInterval(...) *)
IntervalEffect(active, live, t) ==
    IF active THEN Append(live, t + BREATHING_ANALYSIS_INTERVAL) ELSE live

(* a user action: counted, and the environment is left alone *)
UserActs ==
    /\ userActions < MaxUserActions
    /\ userActions' = userActions + 1
    /\ UNCHANGED <<now, keypoints, pc, workout, frameMs, step, horizon, pollAt>>

(* isActive becomes true: the interval effect runs again (cleanup of its previous
   run, then its body, which starts a timer); the reset effect runs and does nothing *)
Activate ==
    /\ pc = "idle"
    /\ ~isActive
    /\ isActive' = TRUE
    /\ timer' = IntervalEffect(TRUE, IntervalCleanup(isActive, timer), now)
    /\ lastOp' = "activate"
    /\ UNCHANGED <<exercise, movementHistory, repHistory, breathingHistory, lastRepTime,
                   lastPredictionTime, lastBreathingAnalysis, predictions, breathingRate,
                   breathingConsistency, signalConfidence>>
    /\ UserActs
    /\ UNCHANGED <<cycleStart, cycleWarm, detected, recorded, wasDirty, ret>>
    /\ UNCHANGED form
    /\ UNCHANGED audioVars

(* isActive becomes false: the interval effect runs again (its cleanup clears the
   timer, its body returns at once); the reset effect clears the session *)
Deactivate ==
    /\ pc = "idle"
    /\ isActive
    /\ isActive' = FALSE
    /\ timer' = IntervalEffect(FALSE, IntervalCleanup(isActive, timer), now)
    /\ ResetTracking
    /\ wasDirty' = Dirty
    /\ detected' = 0
    /\ recorded' = 0
    /\ lastOp' = "deactivate"
    /\ UNCHANGED <<exercise, lastPredictionTime, lastBreathingAnalysis>>
    /\ UserActs
    /\ UNCHANGED <<cycleStart, cycleWarm, ret>>
    /\ UNCHANGED form
    /\ UNCHANGED audioVars

(* the exercise prop changes: the reset effect runs again, and clears the session
   only if !isActive *)
SelectExercise(e) ==
    /\ pc = "idle"
    /\ e # exercise
    /\ exercise' = e
    /\ IF ~isActive
       THEN /\ ResetTracking
            /\ wasDirty' = Dirty
            /\ detected' = 0
            /\ recorded' = 0
       ELSE UNCHANGED <<movementHistory, repHistory, breathingHistory, lastRepTime,
                        predictions, breathingRate, breathingConsistency,
                        signalConfidence, wasDirty, detected, recorded>>
    /\ lastOp' = "selectExercise"
    /\ UNCHANGED <<isActive, timer, lastPredictionTime, lastBreathingAnalysis>>
    /\ UserActs
    /\ UNCHANGED <<cycleStart, cycleWarm, ret>>
    /\ UNCHANGED form
    /\ UNCHANGED audioVars

----------------------------------------------------------------------------
(* The pose source and the clock *)

(* the event loop runs a timer's callback when it is due, before later events *)
NoTimerDue == \A i \in 1..Len(timer) : now < timer[i]

(* the pose source delivers the next frame of the user's movement *)
NewFrame ==
    /\ pc = "idle"
    /\ now + frameMs <= horizon
    /\ NoTimerDue
    /\ now < pollAt
    /\ now' = now + frameMs
    /\ step' = (step % Len(workout)) + 1
    /\ keypoints' = workout[step']
    /\ pc' = "movement"
    /\ cycleStart' = IF step' = 1 THEN now' ELSE cycleStart
    /\ lastOp' = "newFrame"
    /\ UNCHANGED progVars
    /\ UNCHANGED <<workout, frameMs, horizon, userActions, pollAt>>
    /\ UNCHANGED <<cycleWarm, detected, recorded, wasDirty, ret>>
    /\ UNCHANGED form
    /\ UNCHANGED audioVars

(* time passes without a frame *)
Pause ==
    /\ pc = "idle"
    /\ now + PauseMs <= horizon
    /\ NoTimerDue
    /\ now < pollAt
    /\ now' = now + PauseMs
    /\ lastOp' = "pause"
    /\ UNCHANGED progVars
    /\ UNCHANGED <<keypoints, pc, workout, frameMs, step, horizon, userActions, pollAt>>
    /\ UNCHANGED <<cycleStart, cycleWarm, detected, recorded, wasDirty, ret>>
    /\ UNCHANGED form
    /\ UNCHANGED audioVars

----------------------------------------------------------------------------
(* Entry points of usePresage *)

(* a faulty variant of MovementAfterTrack: the sample is pushed whether or not an
   exercise is selected *)
MovementAfterTrackBug(ex, history, dataPoint, t) ==
    NewerThan(Append(history, dataPoint), t - HISTORY_WINDOW)

(* movementHistoryRef.current after trackMovement got a data point *)
MovementAfterTrack(ex, history, dataPoint, t) ==
    IF ex # NoExercise
    THEN NewerThan(Append(history, dataPoint), t - HISTORY_WINDOW)
    ELSE history

(* breathingHistoryRef.current after trackMovement got a data point *)
BreathingAfterTrack(history, dataPoint, t) ==
    NewerThan(IF Truthy(dataPoint.chestY2)
              THEN Append(history, [timestamp |-> dataPoint.timestamp,
                                    chestY2 |-> dataPoint.chestY2])
              ELSE history,
              t - BREATHING_WINDOW)

TrackMovement ==
    /\ pc = "movement"
    /\ LET dataPoint == CreateDataPoint(keypoints, now)
       IN  IF isActive /\ keypoints # NoPose /\ ~dataPoint.isNull
           THEN /\ movementHistory' =
                       MovementAfterTrack(exercise, movementHistory, dataPoint, now)
                /\ breathingHistory' = BreathingAfterTrack(breathingHistory, dataPoint, now)
           ELSE UNCHANGED <<movementHistory, breathingHistory>>
    /\ pc' = "rep"
    /\ lastOp' = "trackMovement"
    /\ UNCHANGED <<isActive, exercise, repHistory, lastRepTime, lastPredictionTime,
                   lastBreathingAnalysis, predictions, breathingRate,
                   breathingConsistency, signalConfidence, timer>>
    /\ UNCHANGED <<now, keypoints, workout, frameMs, step, horizon, userActions, pollAt>>
    /\ UNCHANGED <<cycleStart, cycleWarm, detected, recorded, wasDirty, ret>>
    /\ UNCHANGED form
    /\ UNCHANGED audioVars

(* trackRep(keypoints, formAnalysis): both are arguments of the exported callback *)
TrackRepGiven(formAnalysis) ==
    /\ pc = "rep"
    /\ LET rep == RepDetected(isActive, exercise, movementHistory, keypoints,
                              formAnalysis, now)
       IN  /\ repHistory' = IF rep
                            THEN RepsAfterDetection(repHistory, lastRepTime, formAnalysis, now)
                            ELSE repHistory
           /\ lastRepTime' = IF rep THEN now ELSE lastRepTime
           /\ detected' = IF rep THEN detected + 1 ELSE detected
           /\ recorded' = IF rep /\ Truthy(lastRepTime) THEN recorded + 1 ELSE recorded
    /\ cycleWarm' = /\ (step = 1 \/ cycleWarm)
                    /\ isActive /\ exercise # NoExercise
                    /\ Len(movementHistory) >= MIN_HISTORY_FOR_REP
    /\ pc' = "idle"
    /\ lastOp' = "trackRep"
    /\ UNCHANGED <<isActive, exercise, movementHistory, breathingHistory,
                   lastPredictionTime, lastBreathingAnalysis, predictions, breathingRate,
                   breathingConsistency, signalConfidence, timer>>
    /\ UNCHANGED <<now, keypoints, workout, frameMs, step, horizon, userActions, pollAt>>
    /\ UNCHANGED <<cycleStart, wasDirty, ret>>
    /\ UNCHANGED audioVars

(* trackRep(keypoints, analyzeForm(keypoints)): the host passes the FormResult of
   the same frame *)
TrackRep ==
    /\ TrackRepGiven(AnalyzeForm(exercise, keypoints))
    /\ UNCHANGED form

GetPredictions ==
    /\ pc = "idle"
    /\ now >= pollAt
    /\ pollAt' = now + PollMs
    /\ IF Throttled(now, lastPredictionTime)
       THEN /\ ret' = predictions
            /\ UNCHANGED <<lastPredictionTime, predictions>>
       ELSE LET newPredictions ==
                    AnalyzeAndPredict(isActive, exercise, movementHistory, repHistory)
            IN  /\ lastPredictionTime' = now
                /\ predictions' = IF newPredictions # NoPrediction
                                  THEN newPredictions ELSE predictions
                /\ ret' = newPredictions
    /\ lastOp' = "getPredictions"
    /\ UNCHANGED <<isActive, exercise, movementHistory, repHistory, breathingHistory,
                   lastRepTime, lastBreathingAnalysis, breathingRate,
                   breathingConsistency, signalConfidence, timer>>
    /\ UNCHANGED <<now, keypoints, pc, workout, frameMs, step, horizon, userActions>>
    /\ UNCHANGED <<cycleStart, cycleWarm, detected, recorded, wasDirty>>
    /\ UNCHANGED form
    /\ UNCHANGED audioVars

(* when a repeating timer that was due at due and ran at t is due next: the
   platform counts the interval from the run (HTML timer initialization steps) or
   keeps the timer on its grid (drift-free repeating timers of Blink and Gecko);
   the two agree when the callback ran on time *)
TimerNext(due, t) ==
    {t + BREATHING_ANALYSIS_INTERVAL,
     t + BREATHING_ANALYSIS_INTERVAL - ((t - due) % BREATHING_ANALYSIS_INTERVAL)}

(* the setInterval callback of the breathing effect *)
BreathingTick ==
    /\ pc = "idle"
    /\ \E i \in 1..Len(timer) :
           /\ now >= timer[i]
           /\ \E due \in TimerNext(timer[i], now) : timer' = [timer EXCEPT ![i] = due]
    /\ IF now - lastBreathingAnalysis >= BREATHING_ANALYSIS_INTERVAL
       THEN LET after == AnalyzeBreathing(breathingHistory, breathingRate,
                                          breathingConsistency, signalConfidence)
            IN  /\ breathingRate' = after.rate
                /\ breathingConsistency' = after.consistency
                /\ signalConfidence' = after.confidence
                /\ lastBreathingAnalysis' = now
       ELSE UNCHANGED <<breathingRate, breathingConsistency, signalConfidence,
                        lastBreathingAnalysis>>
    /\ lastOp' = "breathingTick"
    /\ UNCHANGED <<isActive, exercise, movementHistory, repHistory, breathingHistory,
                   lastRepTime, lastPredictionTime, predictions>>
    /\ UNCHANGED envVars
    /\ UNCHANGED <<cycleStart, cycleWarm, detected, recorded, wasDirty, ret>>
    /\ UNCHANGED form
    /\ UNCHANGED audioVars

----------------------------------------------------------------------------
(* Specifications *)

Next ==
    \/ Activate
    \/ Deactivate
    \/ \E e \in Selections : SelectExercise(e)
    \/ NewFrame
    \/ Pause
    \/ TrackMovement
    \/ TrackRep
    \/ GetPredictions
    \/ BreathingTick

Spec == Init /\ [][Next]_vars

(* One uninterrupted session: the hook was activated right after mount, with or
   without an exercise selected, and stays so; frames arrive at the pose source's period. *)
InitWorkout ==
    /\ isActive = TRUE
    /\ exercise \in Selections
    /\ movementHistory = <<>>
    /\ repHistory = <<>>
    /\ breathingHistory = <<>>
    /\ lastRepTime = Null
    /\ lastPredictionTime = 0
    /\ lastBreathingAnalysis = 0
    /\ predictions = NoPrediction
    /\ breathingRate = "normal"
    /\ breathingConsistency = "steady"
    /\ signalConfidence = "medium"
    /\ timer = <<StartTime + BREATHING_ANALYSIS_INTERVAL>>
    /\ InitHist
    /\ InitAudio
    /\ now = StartTime
    /\ keypoints = NoPose
    /\ pc = "idle"
    /\ workout \in Workouts
    /\ frameMs \in FramePeriods
    /\ step = 0
    /\ horizon = StartTime + LongRun
    /\ userActions = 0
    /\ pollAt \in {StartTime + d : d \in PollPhases}

NextWorkout ==
    \/ NewFrame
    \/ TrackMovement
    \/ TrackRep
    \/ GetPredictions
    \/ BreathingTick

SpecWorkout == InitWorkout /\ [][NextWorkout]_vars

(* The classifiers on their own: analyzeForm of the selected exercise is applied to
   one frame. *)
InitClassify ==
    /\ InitProg
    /\ InitHist
    /\ InitAudio
    /\ now = StartTime
    /\ keypoints = NoPose
    /\ pc = "idle"
    /\ workout = <<NoPose>>
    /\ frameMs = 150
    /\ step = 0
    /\ horizon = StartTime
    /\ userActions = 0
    /\ pollAt = StartTime

(* the exercise prop of useFormAnalysis is set *)
ChooseExercise ==
    /\ lastOp = "mount"
    /\ \E e \in Selections : exercise' = e
    /\ lastOp' = "chooseExercise"
    /\ UNCHANGED <<isActive, movementHistory, repHistory, breathingHistory, lastRepTime,
                   lastPredictionTime, lastBreathingAnalysis, predictions, breathingRate,
                   breathingConsistency, signalConfidence, timer>>
    /\ UNCHANGED envVars
    /\ UNCHANGED <<cycleStart, cycleWarm, detected, recorded, wasDirty, ret, form>>
    /\ UNCHANGED audioVars

(* analyzeForm(keypoints) *)
AnalyzeFrame ==
    /\ lastOp = "chooseExercise"
    /\ \E kp \in Frames \cup {NoPose} :
          /\ keypoints' = kp
          /\ form' = AnalyzeForm(exercise, kp)
    /\ lastOp' = "analyzeForm"
    /\ UNCHANGED progVars
    /\ UNCHANGED <<now, pc, workout, frameMs, step, horizon, userActions, pollAt>>
    /\ UNCHANGED <<cycleStart, cycleWarm, detected, recorded, wasDirty, ret>>
    /\ UNCHANGED audioVars

NextClassify ==
    \/ ChooseExercise
    \/ AnalyzeFrame

SpecClassify == InitClassify /\ [][NextClassify]_vars

(* Breathing analysis on its own.  The session is active without an exercise and
   has been receiving upper-body frames, at the times the pose source happened to
   deliver them, for the length of the breathing window; the history is one of the
   chest signals below.  The interval timer is due; only the face stays in view. *)
BreathingStart == StartTime + BREATHING_WINDOW
ChestRest == FaceOnly.nose + 50

(* n samples dt apart, the last one stamped BreathingStart, offset(i) around rest *)
ChestSignal(n, dt, offset(_)) ==
    [i \in 1..n |-> [timestamp |-> BreathingStart - (n - i) * dt,
                     chestY2 |-> 2 * (ChestRest + offset(i))]]

(* the chest goes up and down by a on alternate samples: stdDev = a for even n *)
AlternatingSignal(n, dt, a) ==
    LET offset(i) == IF i % 2 = 1 THEN a ELSE 0 - a
    IN  ChestSignal(n, dt, offset)

(* the chest rests, with ups isolated samples above and downs below the rest *)
SpikySignal(n, dt, ups, downs, a) ==
    LET offset(i) == IF i % 6 = 3 /\ i <= 6 * ups THEN a
                     ELSE IF i % 6 = 0 /\ i <= 6 * downs THEN 0 - a
                     ELSE 0
    IN  ChestSignal(n, dt, offset)

(* the chest rests, with isolated samples above the rest at the indices ups and
   below it at the indices downs *)
PeakedSignal(n, dt, ups, downs, a) ==
    LET offset(i) == IF i \in ups THEN a
                     ELSE IF i \in downs THEN 0 - a
                     ELSE 0
    IN  ChestSignal(n, dt, offset)

(* peaks 7 and 13, 8 and 13, 7 and 14, 6 and 18 samples apart: coefficient of
   variation 0.3, below, above, far above *)
PeakPlacements == { {3, 10, 23}, {3, 11, 24}, {3, 10, 24}, {3, 9, 27} }

BreathingSignals ==
    { AlternatingSignal(n, 200, a) :
          n \in {30, 40}, a \in {4, 5, 6, 19, 20, 21, 25, 49, 50, 51, 60} }
    \cup { AlternatingSignal(n, 200, 10) : n \in {10, 29} }
    \cup { SpikySignal(sh[1], sh[2], ups, downs, a) :
              sh \in {<<33, 300>>, <<34, 300>>, <<39, 250>>},
              ups \in 1..5, downs \in {1, 2, 4, 5}, a \in {10, 30} }
    \cup { PeakedSignal(33, 300, ups, downs, 10) :
              ups \in PeakPlacements, downs \in { {6}, {6, 15} } }

InitBreathing ==
    /\ isActive = TRUE
    /\ exercise = NoExercise
    /\ movementHistory = <<>>
    /\ repHistory = <<>>
    /\ breathingHistory \in BreathingSignals
    /\ lastRepTime = Null
    /\ lastPredictionTime = 0
    /\ lastBreathingAnalysis = BreathingStart - BREATHING_ANALYSIS_INTERVAL
    /\ predictions = NoPrediction
    /\ breathingRate \in {"normal", "fast"}
    /\ breathingConsistency \in {"steady", "erratic"}
    /\ signalConfidence = "medium"
    /\ timer = <<BreathingStart>>
    /\ InitHist
    /\ InitAudio
    /\ now = BreathingStart
    /\ keypoints = FaceOnly
    /\ pc = "idle"
    /\ workout = <<FaceOnly>>
    /\ frameMs = 300
    /\ step = 0
    /\ horizon = BreathingStart + BREATHING_ANALYSIS_INTERVAL + PauseMs
    /\ userActions = 0
    /\ pollAt = horizon + 1

NextBreathing ==
    \/ BreathingTick
    \/ NewFrame
    \/ TrackMovement
    \/ TrackRep

SpecBreathing == InitBreathing /\ [][NextBreathing]_vars

(* The audio queue on its own: clips are added while earlier ones load, play, end
   or fail. *)
InitAudioQueue ==
    /\ InitProg
    /\ InitHist
    /\ InitAudio
    /\ now = StartTime
    /\ keypoints = NoPose
    /\ pc = "idle"
    /\ workout = <<NoPose>>
    /\ frameMs = 150
    /\ step = 0
    /\ horizon = StartTime
    /\ userActions = 0
    /\ pollAt = StartTime

NextAudio ==
    \E c \in Clips :
        \/ Add(c)
        \/ PlayResolves(c)
        \/ PlayBlocked(c)
        \/ LoadFails(c)
        \/ DecodeFails(c)
        \/ OnEnded(c)
        \/ OnError(c)
        \/ CatchRejection(c)

SpecAudio == InitAudioQueue /\ [][NextAudio]_vars

(* The audio queue under the scheduling it can count on: a callback that is queued
   runs, and every clip that was started ends, fails or has its play() rejected. *)
AudioFairness ==
    \A c \in Clips :
        /\ WF_vars(OnError(c))
        /\ WF_vars(CatchRejection(c))
        /\ WF_vars(PlayResolves(c) \/ PlayBlocked(c) \/ LoadFails(c))
        /\ WF_vars(OnEnded(c) \/ DecodeFails(c))

SpecAudioLive == InitAudioQueue /\ [][NextAudio]_vars /\ AudioFairness

(* a complete push-up per cycle: shoulders go down by more than 30 and come back up,
   elbows bend below 120 and straighten above 160, no secondary form error *)
PushUpCycle == <<PushUpTop, PushUpMid, PushUpBottom, PushUpMid, PushUpHigh>>

(* trackRep as the hook exports it.  The FormResult is an argument: the hook cannot
   tell which frame it was computed from.  The host passes the classifier's result
   for the frame it passes, or the one it still holds from the frame before. *)
ShallowPushUp == <<PushUpTop, PushUpMid>>

(* a shallow push-up whose every third frame shows no shoulders *)
InterruptedPushUp == <<HipsOnly, PushUpMid, PushUpTop>>

PreviousKeypoints ==
    IF now <= StartTime + frameMs THEN NoPose
    ELSE workout[IF step = 1 THEN Len(workout) ELSE step - 1]

TrackRepHeld ==
    \E kp \in {keypoints, PreviousKeypoints} :
        /\ TrackRepGiven(AnalyzeForm(exercise, kp))
        /\ form' = AnalyzeForm(exercise, kp)

InitTrackRep ==
    /\ isActive = TRUE
    /\ exercise = "push-up"
    /\ movementHistory = <<>>
    /\ repHistory = <<>>
    /\ breathingHistory = <<>>
    /\ lastRepTime = Null
    /\ lastPredictionTime = 0
    /\ lastBreathingAnalysis = 0
    /\ predictions = NoPrediction
    /\ breathingRate = "normal"
    /\ breathingConsistency = "steady"
    /\ signalConfidence = "medium"
    /\ timer = <<StartTime + BREATHING_ANALYSIS_INTERVAL>>
    /\ InitHist
    /\ InitAudio
    /\ now = StartTime
    /\ keypoints = NoPose
    /\ pc = "idle"
    /\ workout \in {ShallowPushUp, PushUpCycle, InterruptedPushUp}
    /\ frameMs \in FramePeriods
    /\ step = 0
    /\ horizon = StartTime + ShortRun
    /\ userActions = 0
    /\ pollAt \in {StartTime + d : d \in PollPhases}

NextTrackRep ==
    \/ NewFrame
    \/ TrackMovement
    \/ TrackRepHeld
    \/ GetPredictions
    \/ BreathingTick

SpecTrackRep == InitTrackRep /\ [][NextTrackRep]_vars

(* analyzeAndPredict on its own: its rule table applied to a motion window and to a
   rep history of RepRecords, formQuality 'good' or 'poor', as the refs may hold
   them when getPredictions evaluates. *)
RepDurations == {1000, 2000}
FormQualities == {"good", "poor"}

(* rep histories of 3 to 5 records, the last one stamped at StartTime *)
RepHistories ==
    UNION { { [i \in 1..n |-> [timestamp |-> StartTime - 2000 * (n - i),
                               duration |-> d[i],
                               formQuality |-> q[i]]] :
              d \in [1..n -> RepDurations], q \in [1..n -> FormQualities] } :
            n \in 3..5 }

(* 20 samples one frame apart, the last one stamped StartTime, poses alternating *)
MotionWindow(a, b) ==
    [i \in 1..20 |-> CreateDataPoint(IF i % 2 = 1 THEN a ELSE b,
                                     StartTime - 150 * (20 - i))]

(* a still window, and one that swings between standing and the bottom of a squat *)
MotionWindows == {MotionWindow(SquatTop, SquatTop), MotionWindow(Standing, SquatBottom)}

InitPredict ==
    /\ isActive = TRUE
    /\ exercise = "squat"
    /\ movementHistory \in MotionWindows
    /\ repHistory \in RepHistories
    /\ breathingHistory = <<>>
    /\ lastRepTime = StartTime
    /\ lastPredictionTime = 0
    /\ lastBreathingAnalysis = 0
    /\ predictions = NoPrediction
    /\ breathingRate = "normal"
    /\ breathingConsistency = "steady"
    /\ signalConfidence = "medium"
    /\ timer = <<StartTime + BREATHING_ANALYSIS_INTERVAL>>
    /\ InitHist
    /\ InitAudio
    /\ now = StartTime
    /\ keypoints = SquatTop
    /\ pc = "idle"
    /\ workout = <<SquatTop>>
    /\ frameMs = 150
    /\ step = 0
    /\ horizon = StartTime + PollMs
    /\ userActions = 0
    /\ pollAt = StartTime

NextPredict ==
    \/ GetPredictions
    \/ NewFrame
    \/ TrackMovement
    \/ TrackRep

SpecPredict == InitPredict /\ [][NextPredict]_vars

(* The breathing interval on its own: a session without exercise in which frames
   come, the page is held up for a while, and the user stops and restarts. *)
InitTimer ==
    /\ isActive = TRUE
    /\ exercise = NoExercise
    /\ movementHistory = <<>>
    /\ repHistory = <<>>
    /\ breathingHistory = <<>>
    /\ lastRepTime = Null
    /\ lastPredictionTime = 0
    /\ lastBreathingAnalysis = 0
    /\ predictions = NoPrediction
    /\ breathingRate = "normal"
    /\ breathingConsistency = "steady"
    /\ signalConfidence = "medium"
    /\ timer = <<StartTime + BREATHING_ANALYSIS_INTERVAL>>
    /\ InitHist
    /\ InitAudio
    /\ now = StartTime
    /\ keypoints = NoPose
    /\ pc = "idle"
    /\ workout = <<FaceOnly>>
    /\ frameMs = 300
    /\ step = 0
    /\ horizon = StartTime + 3 * BREATHING_ANALYSIS_INTERVAL
    /\ userActions = 0
    /\ pollAt = horizon + 1

NextTimer ==
    \/ BreathingTick
    \/ NewFrame
    \/ Pause
    \/ TrackMovement
    \/ TrackRep
    \/ Activate
    \/ Deactivate

SpecTimer == InitTimer /\ [][NextTimer]_vars

----------------------------------------------------------------------------
(* Claims *)

Last(s) == s[Len(s)]

(* the RepRecords stamped in the cycle of the movement that is under way *)
RepsThisCycle == {i \in 1..Len(repHistory) : repHistory[i].timestamp >= cycleStart}

(* squat movements that go down and up once per cycle, with a frame the squat
   classifier finds valid on every frame *)
ValidSquatCycles ==
    {w \in Workouts : \A i \in 1..Len(w) : AnalyzeSquat(w[i]).isValid}

(* C1: the rep history never holds more than 10 RepRecords; a step that appends a
   RepRecord keeps the records already there in order, puts the new one last, and
   when the history was full drops exactly the oldest; no other step of a session
   changes the history. *)
C1_RepHistoryFifo ==
    [][ /\ Len(repHistory') <= MAX_REPS
        /\ recorded' = recorded + 1 =>
              /\ repHistory' # <<>>
              /\ Last(repHistory').timestamp = now'
              /\ SubSeq(repHistory', 1, Len(repHistory') - 1) =
                     IF Len(repHistory) = MAX_REPS THEN Tail(repHistory) ELSE repHistory
        /\ recorded' = recorded => repHistory' = repHistory
        /\ Len(repHistory') = Min(recorded', MAX_REPS) ]_vars

(* C1 witness: 15 reps have been appended and the history holds 10 *)
C1_Witness == recorded >= 15 /\ Len(repHistory) = MAX_REPS

(* C2: a squat movement that crosses the hysteresis bands once per cycle, every frame
   valid, never gets two RepRecords in one cycle. *)
C2_OneRepPerCycle ==
    (exercise = "squat" /\ workout \in ValidSquatCycles) => Cardinality(RepsThisCycle) <= 1

(* C3: after k detections since the session was reset the rep history holds
   min(k, 10) records: every detection, the first included, appends a RepRecord. *)
C3_EveryDetectionRecorded == Len(repHistory) = Min(detected, MAX_REPS)

(* C4: for push-up, with the FormResult of the same frame, a complete push-up is
   counted: when a cycle of the push-up movement has just been processed, with
   trackRep past its 10-sample warm-up all cycle long, a rep was detected in it. *)
C4_PushUpCounted ==
    (/\ exercise = "push-up" /\ workout = PushUpCycle
     /\ pc = "idle" /\ step = Len(workout) /\ cycleWarm)
    => (lastRepTime # Null /\ lastRepTime >= cycleStart)

(* C5: while the session is not active all session state is cleared: the three
   histories are empty, lastRepTime is null, no prediction is cached and the
   breathing enums are at their defaults. *)
C5_DeactivationClears ==
    ~isActive =>
        /\ movementHistory = <<>>
        /\ repHistory = <<>>
        /\ breathingHistory = <<>>
        /\ lastRepTime = Null
        /\ predictions = NoPrediction
        /\ breathingRate = "normal"
        /\ breathingConsistency = "steady"
        /\ signalConfidence = "medium"

(* C5 witness: the session was just deactivated and the reset discarded something *)
C5_Witness == ~isActive /\ lastOp = "deactivate" /\ wasDirty

(* C6: when the exercise changes while tracking stays active, the three histories are
   reset to empty and lastRepTime to null. *)
C6_ExerciseChangeResets ==
    [][ (exercise' # exercise /\ isActive /\ isActive') =>
            /\ movementHistory' = <<>>
            /\ repHistory' = <<>>
            /\ breathingHistory' = <<>>
            /\ lastRepTime' = Null ]_vars

Span(history) ==
    IF history = <<>> THEN 0 ELSE Last(history).timestamp - history[1].timestamp

(* C7: right after an insert (the newest sample is stamped now) every sample kept in
   the motion history is newer than now - 3000 and every sample kept in the breathing
   history is newer than now - 10000; in every state newest - oldest is below the
   window length, for both buffers. *)
C7_WindowsBounded ==
    /\ Span(movementHistory) < 3000
    /\ Span(breathingHistory) < 10000
    /\ (movementHistory # <<>> /\ Last(movementHistory).timestamp = now) =>
           \A i \in 1..Len(movementHistory) : movementHistory[i].timestamp > now - 3000
    /\ (breathingHistory # <<>> /\ Last(breathingHistory).timestamp = now) =>
           \A i \in 1..Len(breathingHistory) : breathingHistory[i].timestamp > now - 10000

(* C7 witness: trackMovement has just inserted, and the sample of the run's first
   frame has been evicted from both buffers *)
C7_Witness ==
    /\ lastOp = "trackMovement"
    /\ isActive /\ exercise # NoExercise /\ workout[1] # NoPose
    /\ movementHistory # <<>> /\ Last(movementHistory).timestamp = now
    /\ movementHistory[1].timestamp > StartTime + frameMs
    /\ breathingHistory # <<>> /\ Last(breathingHistory).timestamp = now
    /\ breathingHistory[1].timestamp > StartTime + frameMs

Encouragements(p) ==
    {i \in 1..Len(p.suggestions) : p.suggestions[i].type = "encouragement"}

(* C8: a prediction that getPredictions has just computed contains an encouragement
   entry exactly when the number of completed reps is a multiple of 5, and the entry
   carries that number. *)
C8_EncouragementOnMilestones ==
    (lastOp = "getPredictions" /\ lastPredictionTime = now /\ ret # NoPrediction) =>
        /\ Encouragements(ret) # {} <=> (recorded > 0 /\ recorded % 5 = 0)
        /\ \A i \in Encouragements(ret) :
               ret.suggestions[i].count = recorded /\ ret.suggestions[i].priority = "low"

(* C9: analyzeAndPredict returns null whenever the session is inactive, no exercise
   is selected, the motion history has fewer than 20 samples or the rep history has
   fewer than 3 records; so does the getPredictions call that has just evaluated. *)
C9_NoPredictionWithoutEvidence ==
    (\/ ~isActive \/ exercise = NoExercise
     \/ Len(movementHistory) < 20 \/ Len(repHistory) < 3)
    => /\ AnalyzeAndPredict(isActive, exercise, movementHistory, repHistory) = NoPrediction
       /\ (lastOp = "getPredictions" /\ lastPredictionTime = now) => ret = NoPrediction

(* C9 witness: exactly 2 rep records, a full motion window, and no prediction *)
C9_Witness ==
    /\ isActive /\ exercise # NoExercise
    /\ Len(repHistory) = 2 /\ Len(movementHistory) >= 20
    /\ AnalyzeAndPredict(isActive, exercise, movementHistory, repHistory) = NoPrediction

(* C10: a getPredictions call made less than 5000 ms after the previous evaluation
   returns the cached prediction and changes no state of the hook; two evaluations
   are never less than 5000 ms apart. *)
C10_Throttle ==
    [][ /\ (lastOp' = "getPredictions" /\ now - lastPredictionTime < 5000) =>
               (ret' = predictions /\ UNCHANGED progVars)
        /\ lastPredictionTime' # lastPredictionTime =>
               (lastPredictionTime' = now /\ now - lastPredictionTime >= 5000) ]_vars

(* C10 witness: an early call has just returned the prediction cached by the
   evaluation before it *)
C10_Witness ==
    /\ lastOp = "getPredictions"
    /\ lastPredictionTime < now /\ now - lastPredictionTime < 5000
    /\ ret # NoPrediction /\ ret = predictions

(* C11: an evaluation of getPredictions replaces the cached prediction with its own
   result: right after an evaluation that returned null no prediction of an earlier
   evaluation is cached or exposed any more. *)
C11_EvaluationReplacesCache ==
    (lastOp = "getPredictions" /\ lastPredictionTime = now /\ ret = NoPrediction)
    => predictions = NoPrediction

(* the frame trackMovement was just given yields a data point / a chest estimate *)
FrameUsable == isActive /\ keypoints # NoPose /\ ~CreateDataPoint(keypoints, now).isNull
HasChest == FrameUsable /\ Truthy(CreateDataPoint(keypoints, now).chestY2)

(* the breathing history after a call of trackMovement that had a chest estimate: the
   samples still inside the 10 s window, in order, then the new sample *)
BreathingKeptAndAppended ==
    LET inWindow(p) == p.timestamp > now - 10000
    IN  /\ breathingHistory' # <<>>
        /\ Last(breathingHistory') =
               [timestamp |-> now, chestY2 |-> CreateDataPoint(keypoints, now).chestY2]
        /\ SubSeq(breathingHistory', 1, Len(breathingHistory') - 1) =
               SelectSeq(breathingHistory, inWindow)

(* C12 as stated: with an absent or an unknown exercise selection a call of
   trackMovement leaves the motion history as it is, while a frame with a chest
   estimate is appended to the breathing history and old samples are evicted. *)
C12_NoMotionUnlessKnownExercise ==
    [][ (lastOp' = "trackMovement" /\ exercise \notin Exercises) =>
            /\ movementHistory' = movementHistory
            /\ HasChest => BreathingKeptAndAppended ]_vars

(* C12 amended: with no exercise selected a call of trackMovement leaves the motion
   history as it is; with any selection, known to the classifiers or not, a usable
   frame is appended to it; in both cases a frame with a chest estimate is appended
   to the breathing history and samples older than 10 s are evicted. *)
C12_NoMotionWithoutExercise ==
    [][ lastOp' = "trackMovement" =>
            /\ exercise = NoExercise => movementHistory' = movementHistory
            /\ (exercise # NoExercise /\ FrameUsable) =>
                   (movementHistory' # <<>> /\ Last(movementHistory').timestamp = now)
            /\ HasChest => BreathingKeptAndAppended ]_vars

(* C12 witness: no exercise is selected, trackMovement has just appended a breathing
   sample and evicted the first one of the session, and the motion history is empty *)
C12_Witness ==
    /\ lastOp = "trackMovement" /\ isActive /\ exercise = NoExercise
    /\ movementHistory = <<>>
    /\ breathingHistory # <<>> /\ Last(breathingHistory).timestamp = now
    /\ breathingHistory[1].timestamp > StartTime + frameMs

(* C13: while isActive is false a call of trackMovement, trackRep or getPredictions
   (and the analyzeAndPredict inside it) changes no session state: buffers,
   lastRepTime, cached prediction, last-evaluation timestamp, breathing enums; and
   getPredictions yields no prediction. *)
C13_InactiveEntryPointsInert ==
    [][ (~isActive /\ lastOp' \in {"trackMovement", "trackRep", "getPredictions"}) =>
            /\ UNCHANGED <<movementHistory, repHistory, breathingHistory, lastRepTime,
                           predictions, lastPredictionTime, breathingRate,
                           breathingConsistency, signalConfidence>>
            /\ lastOp' = "getPredictions" => ret' = NoPrediction ]_vars

(* a mandatory joint of the selected exercise is unresolved on both sides *)
MandatoryMissing ==
    \/ /\ exercise = "squat"
       /\ \/ keypoints.leftHip = Null /\ keypoints.rightHip = Null
          \/ keypoints.leftKnee = Null /\ keypoints.rightKnee = Null
          \/ ~keypoints.hasAnkle
    \/ /\ exercise = "push-up"
       /\ \/ keypoints.leftShoulder = Null /\ keypoints.rightShoulder = Null
          \/ ~keypoints.hasElbow
          \/ ~keypoints.hasWrist

(* C14: for a frame in which a mandatory joint of the exercise is unresolved on both
   sides the classifier returns exactly {feedback: '', isValid: false}, without
   angle fields, whatever the other keypoints are. *)
C14_MissingJointNeutral ==
    (lastOp = "analyzeForm" /\ keypoints # NoPose /\ MandatoryMissing)
    => form = [feedback |-> "", isValid |-> FALSE, angles |-> {}]

(* C14 witness: a squat frame with a deep knee bend, a bent back and hips and knees
   resolved, but no ankle, was classified as neutral *)
C14_Witness ==
    /\ lastOp = "analyzeForm" /\ exercise = "squat"
    /\ keypoints # NoPose /\ ~keypoints.hasAnkle
    /\ keypoints.leftHip # Null /\ keypoints.leftKnee # Null
    /\ keypoints.kneeAngle = 60 /\ keypoints.hipAngle = 140
    /\ form.feedback = "" /\ ~form.isValid

(* the secondary checks that trigger on the classified frame *)
BackTriggers ==
    /\ keypoints.leftShoulder # Null \/ keypoints.rightShoulder # Null
    /\ keypoints.hipAngle < 150
KneeAlignmentTriggers ==
    10 * keypoints.kneeAnkleDx >
        3 * (IF keypoints.hipKneeDistance = 0 THEN 1 ELSE keypoints.hipKneeDistance)
BodyLineTriggers ==
    /\ keypoints.leftHip # Null \/ keypoints.rightHip # Null
    /\ keypoints.hasAnkle
    /\ keypoints.bodyAngle < 160
HandsTrigger == keypoints.wristDx < 0 - 50
FlareTriggers ==
    2 * keypoints.elbowDx > 3 * (IF keypoints.elbowDy = 0 THEN 1 ELSE keypoints.elbowDy)

(* C15: the secondary checks are last-writer-wins in a fixed order.  Squat: back
   alignment, then knee alignment; push-up: body line, hand placement, elbow flare.
   The feedback is the message of the last check that triggered, and the frame is
   not valid. *)
C15_LastWriterWins ==
    (lastOp = "analyzeForm" /\ keypoints # NoPose /\ ~MandatoryMissing) =>
        /\ exercise = "squat" =>
              /\ KneeAlignmentTriggers =>
                    (form.feedback =
                         "Keep your knees aligned with your toes, don't let them cave in"
                     /\ ~form.isValid)
              /\ (BackTriggers /\ ~KneeAlignmentTriggers) =>
                    (form.feedback = "Keep your back straight and chest up"
                     /\ ~form.isValid)
        /\ exercise = "push-up" =>
              /\ FlareTriggers =>
                    (form.feedback = "Keep your elbows closer to your body, not flared out"
                     /\ ~form.isValid)
              /\ (HandsTrigger /\ ~FlareTriggers) =>
                    (form.feedback = "Keep your hands directly under your shoulders"
                     /\ ~form.isValid)
              /\ (BodyLineTriggers /\ ~HandsTrigger /\ ~FlareTriggers) =>
                    (form.feedback = "Keep your body in a straight line from head to toe"
                     /\ ~form.isValid)

(* C15 witness: a squat frame that fails both the back check and the knee-alignment
   check got the knee-alignment message *)
C15_Witness ==
    /\ lastOp = "analyzeForm" /\ exercise = "squat"
    /\ keypoints # NoPose /\ ~MandatoryMissing
    /\ BackTriggers /\ KneeAlignmentTriggers
    /\ form.feedback = "Keep your knees aligned with your toes, don't let them cave in"

(* analyzeBreathing has just run on the breathing history of this state *)
BreathingJustAnalyzed == lastOp = "breathingTick" /\ lastBreathingAnalysis = now

(* the doubled chest-Y samples of the breathing history, and 4 n^2 times their
   variance: stdDev < k  iff  ChestSpread < 4 k^2 n^2 *)
ChestSamples == [i \in 1..Len(breathingHistory) |-> breathingHistory[i].chestY2]
ChestSpread ==
    Len(ChestSamples) * SumSeq([i \in 1..Len(ChestSamples) |-> ChestSamples[i] * ChestSamples[i]])
        - SumSeq(ChestSamples) * SumSeq(ChestSamples)
StdevTimes(k) == 4 * k * k * Len(ChestSamples) * Len(ChestSamples)

(* C16: with 30 samples or more the signal confidence is decided by the standard
   deviation of chest-Y alone: below 5 low, from 5 to 20 high, above 20 up to 50
   medium, above 50 low. *)
C16_ConfidenceByStdev ==
    (BreathingJustAnalyzed /\ Len(breathingHistory) >= 30) =>
        signalConfidence =
            IF ChestSpread < StdevTimes(5) THEN "low"
            ELSE IF ChestSpread <= StdevTimes(20) THEN "high"
            ELSE IF ChestSpread <= StdevTimes(50) THEN "medium"
            ELSE "low"

(* C16 witness: a signal with a stdDev of exactly 20 was rated high *)
C16_Witness ==
    /\ BreathingJustAnalyzed /\ Len(breathingHistory) >= 30
    /\ ChestSpread = StdevTimes(20)
    /\ signalConfidence = "high"

BreathingCycles == Min(Cardinality(Peaks(ChestSamples)), Cardinality(Valleys(ChestSamples)))
BreathingSpan == Span(breathingHistory)
RateAnalyzed ==
    /\ BreathingJustAnalyzed /\ Len(breathingHistory) >= 30
    /\ Cardinality(Peaks(ChestSamples)) >= 2 /\ Cardinality(Valleys(ChestSamples)) >= 2

(* C17: the breathing rate is min(#peaks, #valleys) / windowDurationMs * 60000 cycles
   per minute, slow below 10, fast above 25, normal otherwise; the window duration
   it divides by is never zero. *)
C17_RateClassification ==
    RateAnalyzed =>
        /\ BreathingSpan > 0
        /\ breathingRate =
               IF BreathingCycles * 60000 < 10 * BreathingSpan THEN "slow"
               ELSE IF BreathingCycles * 60000 > 25 * BreathingSpan THEN "fast"
               ELSE "normal"

(* C17 witness: exactly 25 cycles per minute (4 cycles in 9600 ms) were rated normal *)
C17_Witness ==
    /\ RateAnalyzed
    /\ BreathingCycles = 4 /\ BreathingSpan = 9600
    /\ breathingRate = "normal"

(* C18: an analysis of fewer than 30 samples sets the signal confidence to low and
   leaves breathing rate and breathing consistency as they were. *)
C18_TooFewSamples ==
    [][ (lastOp' = "breathingTick" /\ lastBreathingAnalysis' # lastBreathingAnalysis
         /\ Len(breathingHistory) < 30) =>
            /\ signalConfidence' = "low"
            /\ UNCHANGED <<breathingRate, breathingConsistency>> ]_vars

(* C18 witness: 29 samples were analyzed; the confidence is low and the rate and
   consistency found earlier are still there *)
C18_Witness ==
    /\ BreathingJustAnalyzed /\ Len(breathingHistory) = 29
    /\ signalConfidence = "low"
    /\ breathingRate = "fast" /\ breathingConsistency = "erratic"

(* the frame trackRep was just given, for squat: its centerY (times 6), the greatest
   centerY in the motion window, and the last 5 samples of the window *)
SquatFrameTracked ==
    /\ isActive /\ exercise = "squat" /\ FrameUsable /\ movementHistory # <<>>
CurrentCenter == CreateDataPoint(keypoints, now).centerY6
MaxCenter ==
    CHOOSE c \in {movementHistory[i].centerY6 : i \in 1..Len(movementHistory)} :
        \A i \in 1..Len(movementHistory) : movementHistory[i].centerY6 <= c
RecentCenters ==
    {movementHistory[i].centerY6 :
         i \in {j \in 1..Len(movementHistory) : j > Len(movementHistory) - 5}}
AtBottom ==
    CurrentCenter - MaxCenter < 6 * 20 /\ MaxCenter - CurrentCenter < 6 * 20
FormValid == AnalyzeForm(exercise, keypoints).isValid

(* C20 as stated: for squat, trackRep (past its return on a window of fewer than 10
   samples) detects a rep on a frame exactly when wasLower and not atBottom and the
   FormResult is valid, wasLower meaning that some of the last 5 samples has a
   centerY at least 30 greater than the current one. *)
C20_SquatDetection ==
    [][ (lastOp' = "trackRep" /\ SquatFrameTracked /\ Len(movementHistory) >= 10) =>
            (detected' = detected + 1 <=>
                 /\ \E c \in RecentCenters : c >= CurrentCenter + 6 * 30
                 /\ ~AtBottom
                 /\ FormValid) ]_vars

(* C20 amended: for squat, with at least 10 samples in the motion window, trackRep
   detects a rep on a frame exactly when wasLower and not atBottom and the FormResult
   is valid, wasLower meaning that some of the last 5 samples has a centerY more
   than 30 greater than the current one; with fewer than 10 samples it detects
   nothing. *)
C20_SquatDetectionStrict ==
    [][ (lastOp' = "trackRep" /\ SquatFrameTracked) =>
            (detected' = detected + 1 <=>
                 /\ Len(movementHistory) >= 10
                 /\ \E c \in RecentCenters : c > CurrentCenter + 6 * 30
                 /\ ~AtBottom
                 /\ FormValid) ]_vars

(* C20 witness: a squat rep was just detected on a frame that is 60 above the bottom
   of the window *)
C20_Witness ==
    /\ lastOp = "trackRep" /\ SquatFrameTracked
    /\ lastRepTime = now /\ detected > 0
    /\ MaxCenter - CurrentCenter = 6 * 60

(* the clips whose Audio element has been started and has neither ended nor failed *)
Sounding == {c \in Clips : clip[c] \in {"starting", "playing"}}

(* C19: the queue never plays two clips at once: a clip is started only after the
   clip started before it has ended or failed. *)
C19_OneClipAtATime == Cardinality(Sounding) <= 1

(* the elbow angle stays at 120 degrees or above on every frame of the movement *)
ElbowNeverBent == \A i \in 1..Len(workout) : workout[i].elbowAngle >= 120

(* C21: a push-up rep is recorded only if the elbow angle went from below 120 to
   above 160 degrees: on a run of frames whose elbow angle is never below 120 no
   push-up RepRecord is created, whatever FormResult trackRep is given. *)
C21_PushUpNeedsElbowCrossing ==
    (exercise = "push-up" /\ ElbowNeverBent) => (recorded = 0 /\ repHistory = <<>>)

(* getPredictions has just evaluated the histories of this state *)
JustEvaluated == lastOp = "getPredictions" /\ lastPredictionTime = now

(* the three signals of an evaluation, from the histories: the mean duration of the
   last 3 reps is more than 1.2 times that of the last 5; fewer than 60% of the last
   5 reps are good; the variance of centerY over the last 30 samples exceeds 1000 *)
RecentReps == LastN(repHistory, 5)
DurationSum(reps) == SumSeq([i \in 1..Len(reps) |-> reps[i].duration])
SpeedIncrease ==
    5 * Len(RecentReps) * DurationSum(LastN(RecentReps, 3)) > 18 * DurationSum(RecentReps)
GoodReps == Cardinality({i \in 1..Len(RecentReps) : RecentReps[i].formQuality = "good"})
FormDeclining == 5 * GoodReps < 3 * Len(RecentReps)
RecentCenterY6 ==
    LET recent == LastN(movementHistory, 30)
    IN  [i \in 1..Len(recent) |-> recent[i].centerY6]
HighVariability ==
    Len(RecentCenterY6) * SumSeq([i \in 1..Len(RecentCenterY6) |->
                                     RecentCenterY6[i] * RecentCenterY6[i]])
        - SumSeq(RecentCenterY6) * SumSeq(RecentCenterY6)
    > 36000 * Len(RecentCenterY6) * Len(RecentCenterY6)

(* the suggestions in the order of the rules that emit them *)
RuleOrder ==
    <<"slowing down", "take a short break", "focus on form", "posture may weaken",
      "completed reps">>
RuleOf(message) == CHOOSE k \in 1..Len(RuleOrder) : RuleOrder[k] = message
Emitted(p) == {p.suggestions[i].message : i \in 1..Len(p.suggestions)}

(* C22: within one evaluation no rule downgrades a level set by an earlier rule.
   fatigueLevel is high iff speedIncrease and formDeclining, medium iff speedIncrease
   and not formDeclining, else low; riskOfMistake is high iff highVariability and
   formDeclining, medium iff formDeclining and neither speedIncrease nor
   highVariability, else low; each rule that fires emits its suggestion, and the
   suggestions appear in rule order. *)
C22_LevelsNeverDowngraded ==
    (JustEvaluated /\ ret # NoPrediction) =>
        /\ ret.fatigueLevel =
               IF SpeedIncrease /\ FormDeclining THEN "high"
               ELSE IF SpeedIncrease /\ ~FormDeclining THEN "medium"
               ELSE "low"
        /\ ret.riskOfMistake =
               IF HighVariability /\ FormDeclining THEN "high"
               ELSE IF FormDeclining /\ ~SpeedIncrease /\ ~HighVariability THEN "medium"
               ELSE "low"
        /\ "slowing down" \in Emitted(ret) <=> SpeedIncrease
        /\ "take a short break" \in Emitted(ret) <=> (SpeedIncrease /\ FormDeclining)
        /\ "focus on form" \in Emitted(ret) <=> (FormDeclining /\ ~SpeedIncrease)
        /\ "posture may weaken" \in Emitted(ret) <=> (HighVariability /\ FormDeclining)
        /\ \A i, j \in 1..Len(ret.suggestions) :
               i < j => RuleOf(ret.suggestions[i].message) < RuleOf(ret.suggestions[j].message)

(* C22 witness: the medium-risk rule and then the high-risk rule fired in one
   evaluation, and the risk stayed high *)
C22_Witness ==
    /\ JustEvaluated /\ ret # NoPrediction
    /\ FormDeclining /\ ~SpeedIncrease /\ HighVariability
    /\ ret.riskOfMistake = "high"
    /\ Len(ret.suggestions) >= 2

(* the step is a run of analyzeBreathing on 30 samples or more *)
AnalysisStep ==
    /\ lastOp' = "breathingTick" /\ lastBreathingAnalysis' # lastBreathingAnalysis
    /\ Len(breathingHistory) >= 30
PeakCount == Cardinality(Peaks(ChestSamples))
ValleyCount == Cardinality(Valleys(ChestSamples))

(* the confidence class of the chest samples' standard deviation *)
StdevClass ==
    IF ChestSpread < StdevTimes(5) \/ ChestSpread > StdevTimes(50) THEN "low"
    ELSE IF ChestSpread > StdevTimes(20) THEN "medium"
    ELSE "high"

(* C23: when an analysis of 30 samples or more finds fewer than 2 strict local peaks
   or fewer than 2 strict local valleys, breathing rate and breathing consistency
   keep their previous values; only the signal confidence is updated. *)
C23_TooFewCyclesKeepsRate ==
    [][ (AnalysisStep /\ (PeakCount < 2 \/ ValleyCount < 2)) =>
            /\ UNCHANGED <<breathingRate, breathingConsistency>>
            /\ signalConfidence' = StdevClass ]_vars

(* C23 witness: a signal with 2 peaks or more and a single valley was analyzed; the
   confidence was set, the rate and consistency found earlier are still there *)
C23_Witness ==
    /\ BreathingJustAnalyzed /\ Len(breathingHistory) >= 30
    /\ PeakCount >= 2 /\ ValleyCount = 1
    /\ signalConfidence = "high"
    /\ breathingRate = "fast" /\ breathingConsistency = "erratic"

(* the times between one peak of the chest signal and the next, oldest first *)
PeakTimes ==
    LET idx == Sorted(Peaks(ChestSamples))
    IN  [k \in 1..Len(idx) |-> breathingHistory[idx[k]].timestamp]
PeakIntervals == [k \in 1..(Len(PeakTimes) - 1) |-> PeakTimes[k + 1] - PeakTimes[k]]
IntervalSum == SumSeq(PeakIntervals)
IntervalSquares == SumSeq([k \in 1..Len(PeakIntervals) |-> PeakIntervals[k] * PeakIntervals[k]])
(* stddev / mean > 3/10  iff  100 (n * sum of squares - sum^2) > 9 sum^2 *)
VariationAbove30Percent ==
    100 * (Len(PeakIntervals) * IntervalSquares - IntervalSum * IntervalSum)
        > 9 * IntervalSum * IntervalSum

(* C24: breathing consistency is updated only when the analysis goes through with
   at least 3 peaks (2 inter-peak intervals): it becomes erratic when the
   coefficient of variation of the inter-peak durations exceeds 0.3 and steady
   otherwise; with exactly 2 peaks (and 2 valleys or more) the rate is updated and
   the consistency keeps its previous value. *)
C24_ConsistencyNeedsThreePeaks ==
    [][ AnalysisStep =>
            /\ (PeakCount >= 3 /\ ValleyCount >= 2) =>
                   breathingConsistency' =
                       IF VariationAbove30Percent THEN "erratic" ELSE "steady"
            /\ PeakCount < 3 => breathingConsistency' = breathingConsistency
            /\ (PeakCount = 2 /\ ValleyCount >= 2) =>
                   breathingRate' =
                       IF 2 * 60000 < 10 * BreathingSpan THEN "slow"
                       ELSE IF 2 * 60000 > 25 * BreathingSpan THEN "fast"
                       ELSE "normal" ]_vars

(* C24 witness: 3 peaks 2100 ms and 3900 ms apart (coefficient of variation exactly
   0.3) were rated steady *)
C24_Witness ==
    /\ BreathingJustAnalyzed /\ Len(breathingHistory) >= 30
    /\ PeakCount = 3 /\ ValleyCount >= 2
    /\ PeakIntervals = <<2100, 3900>>
    /\ breathingConsistency = "steady"

(* a frame was classified for which the classifier of the selected exercise has all
   its mandatory joints *)
Classified ==
    /\ lastOp = "analyzeForm" /\ exercise \in Exercises
    /\ keypoints # NoPose /\ ~MandatoryMissing

(* the primary depth classification finds the frame valid; a secondary check of the
   selected exercise triggers *)
PrimaryValid ==
    IF exercise = "squat" THEN keypoints.kneeAngle <= 160 ELSE keypoints.elbowAngle < 140
SecondaryTriggers ==
    IF exercise = "squat" THEN BackTriggers \/ KneeAlignmentTriggers
    ELSE BodyLineTriggers \/ HandsTrigger \/ FlareTriggers

(* C25: secondary checks never raise isValid back to true.  For analyzeSquat and for
   analyzePushUp the returned isValid is true exactly when the primary depth
   classification is valid and no secondary check triggers. *)
C25_ChecksNeverRaiseValidity ==
    Classified => (form.isValid <=> (PrimaryValid /\ ~SecondaryTriggers))

(* C25 witness: a push-up frame too shallow for the depth classification passed the
   body-line, hand-placement and elbow-flare checks and is still not valid *)
C25_Witness ==
    /\ Classified /\ exercise = "push-up"
    /\ keypoints.elbowAngle = 150
    /\ keypoints.leftHip # Null /\ keypoints.hasAnkle /\ keypoints.bodyAngle >= 160
    /\ ~SecondaryTriggers
    /\ ~form.isValid
    /\ form.feedback = "Lower your body more for a complete push-up"

(* C26: with no secondary check triggering, squat depth is classified by the knee
   angle alone: above 160 not valid, "Bend your knees ..."; below 70 valid, "Great
   depth ..."; from 70 to below 100 valid, "Good form ..."; from 100 through 160
   valid, "... Keep it up!". *)
C26_SquatDepthBands ==
    (Classified /\ exercise = "squat" /\ ~SecondaryTriggers) =>
        /\ keypoints.kneeAngle > 160 =>
               (~form.isValid
                /\ form.feedback = "Bend your knees more to go deeper into the squat")
        /\ keypoints.kneeAngle < 70 =>
               (form.isValid
                /\ form.feedback = "Great depth! Keep your knees aligned with your toes")
        /\ (70 <= keypoints.kneeAngle /\ keypoints.kneeAngle < 100) =>
               (form.isValid
                /\ form.feedback = "Good form! You're getting deep into the squat")
        /\ (100 <= keypoints.kneeAngle /\ keypoints.kneeAngle <= 160) =>
               (form.isValid /\ form.feedback = "You're doing great! Keep it up!")

(* C26 witness: a squat frame with a knee angle of 65 degrees and no secondary error
   was found valid with the depth message *)
C26_Witness ==
    /\ Classified /\ exercise = "squat" /\ ~SecondaryTriggers
    /\ keypoints.kneeAngle = 65
    /\ form.isValid
    /\ form.feedback = "Great depth! Keep your knees aligned with your toes"

(* C27: while the session stays active every firing of the 3-second interval timer
   performs analyzeBreathing: the last-analysis guard suppresses no tick, also after
   a deactivate / reactivate; and two analyses are never less than 3000 ms apart. *)
C27_EveryTickAnalyzes ==
    [][ /\ lastOp' = "breathingTick" => lastBreathingAnalysis' = now
        /\ lastBreathingAnalysis' # lastBreathingAnalysis =>
               now - lastBreathingAnalysis >= 3000 ]_vars

(* the promise add returned for the clip has been resolved or rejected *)
Settled(c) == clip[c] \in {"ended", "rejected"}

(* C28: every promise returned by add is eventually settled, resolved when its clip
   ends and rejected when it errors or fails to start, provided every started clip
   ends, errors or has its play() rejected; and no clip is left waiting in the
   queue while isPlaying is false. *)
C28_EveryPromiseSettles ==
    /\ [](~isPlaying => queue = <<>>)
    /\ \A c \in Clips : (clip[c] # "new") ~> Settled(c)

(* C28 witness: three clips were added; the first failed to load and was rejected,
   the others were played to the end, and nothing waits *)
C28_Witness ==
    /\ clip[1] = "rejected" /\ errorPending = {} /\ rejectPending = {}
    /\ \A c \in Clips : c # 1 => clip[c] = "ended"
    /\ queue = <<>> /\ ~isPlaying

(* C29: every RepRecord in the rep history has formQuality 'good': a record is
   only created on a frame whose FormResult is valid. *)
C29_AllRepsGood ==
    \A i \in 1..Len(repHistory) : repHistory[i].formQuality = "good"

(* C29 witness: a squat session has filled the rep history, frames that are not
   valid included in the movement *)
C29_Witness ==
    /\ exercise = "squat" /\ Len(repHistory) = MAX_REPS
    /\ \E i \in 1..Len(workout) : ~AnalyzeSquat(workout[i]).isValid
    /\ \A i \in 1..Len(repHistory) : repHistory[i].formQuality = "good"

(* what a Prediction of a session can be: no risk, fatigue at most medium, and no
   suggestion of the rules that need formDeclining *)
Harmless(p) ==
    /\ p.riskOfMistake = "low"
    /\ p.fatigueLevel \in {"low", "medium"}
    /\ Emitted(p) \cap {"take a short break", "focus on form", "posture may weaken"} = {}

(* C30: in every state of a session formDeclining is false for the rep history, and
   any Prediction analyzeAndPredict returns, getPredictions returns or the hook
   caches has riskOfMistake low and fatigueLevel low or medium, without the
   take-a-break, focus-on-form and posture-weakening suggestions. *)
C30_NoRiskPredicted ==
    /\ ~FormDeclining
    /\ LET p == AnalyzeAndPredict(isActive, exercise, movementHistory, repHistory)
       IN  p # NoPrediction => Harmless(p)
    /\ ret # NoPrediction => Harmless(ret)
    /\ predictions # NoPrediction => Harmless(predictions)

(* C30 witness: an evaluation found the user slowing down and returned a Prediction
   with medium fatigue and low risk *)
C30_Witness ==
    /\ JustEvaluated /\ ret # NoPrediction
    /\ SpeedIncrease
    /\ ret.fatigueLevel = "medium" /\ ret.riskOfMistake = "low"

(* C31: with exactly 3 records in the rep history of a session analyzeAndPredict
   returns null, whatever the durations and the motion samples are: the mean of the
   last 3 durations is the mean of all, no record is poor, and 3 is no milestone. *)
C31_ThreeRepsNoPrediction ==
    Len(repHistory) = 3 =>
        /\ AnalyzeAndPredict(isActive, exercise, movementHistory, repHistory) = NoPrediction
        /\ JustEvaluated => ret = NoPrediction
        /\ ~SpeedIncrease /\ ~FormDeclining

(* C31 witness: getPredictions has just evaluated a full motion window and exactly 3
   rep records, and returned null *)
C31_Witness ==
    /\ JustEvaluated /\ isActive /\ exercise # NoExercise
    /\ Len(repHistory) = 3 /\ Len(movementHistory) >= 20
    /\ ret = NoPrediction

(* the data point trackRep builds from the current frame *)
CurrentDataPoint == CreateDataPoint(keypoints, now)

(* trackRep gets as far as the tests wasLower and isAtBottom of the selected exercise *)
ReachesRepTests ==
    /\ isActive /\ keypoints # NoPose /\ ~CurrentDataPoint.isNull
    /\ Len(movementHistory) >= MIN_HISTORY_FOR_REP
    /\ \/ exercise = "squat"
       \/ /\ exercise = "push-up"
          /\ Truthy(CurrentDataPoint.shoulderY)
          /\ Truthy(LowestPushUp(Head(movementHistory), Tail(movementHistory)).shoulderY)

WasLower ==
    IF exercise = "squat" THEN SquatWasLower(movementHistory, CurrentDataPoint)
    ELSE PushUpWasLower(movementHistory, CurrentDataPoint)

IsAtBottom ==
    IF exercise = "squat" THEN SquatIsAtBottom(movementHistory, CurrentDataPoint)
    ELSE PushUpIsAtBottom(movementHistory, CurrentDataPoint)

(* the condition of "Rep completed" with the conjunct !isAtBottom left out *)
DetectedWithoutBottomTest(formAnalysis) ==
    /\ WasLower /\ formAnalysis.isValid
    /\ exercise = "push-up" =>
           /\ Present(keypoints.leftShoulder) \/ Present(keypoints.rightShoulder)
           /\ keypoints.hasElbow /\ keypoints.hasWrist
           /\ keypoints.elbowAngle > 160

(* C32: in trackRep, for squat and for push-up, wasLower implies NOT isAtBottom: when
   one of the last 5 samples of the window is more than 30 below the current frame, the
   current frame is at least 20 away from the lowest point of the window; so the
   conjunct !isAtBottom never changes whether a rep is detected, whatever FormResult
   is passed *)
C32_WasLowerExcludesBottom ==
    ReachesRepTests =>
        /\ WasLower => ~IsAtBottom
        /\ \A valid \in BOOLEAN :
               LET formAnalysis == [feedback |-> "", isValid |-> valid]
               IN  RepDetected(isActive, exercise, movementHistory, keypoints,
                               formAnalysis, now)
                   <=> DetectedWithoutBottomTest(formAnalysis)

(* C32 witness: trackRep has just detected a squat rep on a frame on which wasLower
   held, with the lowest point of the window more than 20 away *)
C32_Witness ==
    /\ lastOp = "trackRep" /\ exercise = "squat" /\ ReachesRepTests
    /\ WasLower /\ ~IsAtBottom
    /\ lastRepTime = now /\ detected >= 1

(* the oldest sample of the motion window has no shoulderY *)
OldestWithoutShoulder ==
    /\ exercise = "push-up"
    /\ movementHistory # <<>>
    /\ ~Truthy(Head(movementHistory).shoulderY)

(* the oldest sample followed by the window's samples from the i-th on *)
OldestAndFrom(i) ==
    <<Head(movementHistory)>> \o SubSeq(movementHistory, i, Len(movementHistory))

CurrentFrames == {keypoints, PushUpTop, PushUpHigh, PushUpMid, PushUpBottom, HipsOnly}

(* C33: push-up: while the oldest sample of the motion window has no shoulderY,
   trackRep detects no rep, whatever the other samples of the window, the current frame
   and the FormResult are, and the frame just handled has recorded none *)
C33_ShoulderlessOldestBlocks ==
    OldestWithoutShoulder =>
        /\ \A i \in 2..(Len(movementHistory) + 1), kp \in CurrentFrames, valid \in BOOLEAN :
               ~RepDetected(isActive, exercise, OldestAndFrom(i), kp,
                            [feedback |-> "", isValid |-> valid], now)
        /\ lastOp = "trackRep" => lastRepTime # now

(* C33 witness: trackRep has handled a frame while the oldest sample had no shoulderY
   and has recorded nothing, although the FormResult it was given was valid and the
   window without that sample makes the frame a completed rep *)
C33_Witness ==
    /\ lastOp = "trackRep" /\ isActive /\ OldestWithoutShoulder
    /\ form.isValid
    /\ RepDetected(isActive, exercise, Tail(movementHistory), keypoints, form, now)
    /\ detected = 0 /\ lastRepTime = Null

(* the rep history is ordered in time, its durations are the gaps between consecutive
   records, and lastRepTimeRef is not older than any record *)
RepHistoryOrdered ==
    /\ \A i \in 1..Len(repHistory) : repHistory[i].duration >= 0
    /\ \A i \in 2..Len(repHistory) :
           /\ repHistory[i - 1].timestamp <= repHistory[i].timestamp
           /\ repHistory[i].duration = repHistory[i].timestamp - repHistory[i - 1].timestamp
    /\ \/ lastRepTime = Null
       \/ \A i \in 1..Len(repHistory) : lastRepTime >= repHistory[i].timestamp

(* a step that stores a RepRecord: the record is the newest one, it is stamped with the
   time of this detection, and its duration is the time since the detection before *)
RecordStored ==
    (repHistory' # repHistory /\ repHistory' # <<>>) =>
        /\ Truthy(lastRepTime)
        /\ repHistory'[Len(repHistory')].timestamp = now'
        /\ repHistory'[Len(repHistory')].duration = now' - lastRepTime
        /\ lastRepTime' = now'

(* C34: the rep history is time-ordered and consistent with lastRepTimestamp:
   timestamps are non-decreasing, every duration is non-negative and equals the
   record's timestamp minus the time of the rep detection before it, and
   lastRepTimestamp is null or at least every stored timestamp *)
C34_RepHistoryTimeOrdered == [][RepHistoryOrdered' /\ RecordStored]_vars

(* C34 witness: trackRep has just stored a record in a full rep history, dropping the
   oldest one, and the history is ordered *)
C34_Witness ==
    /\ lastOp = "trackRep" /\ lastRepTime = now
    /\ Len(repHistory) = MAX_REPS /\ recorded > MAX_REPS
    /\ repHistory[MAX_REPS].timestamp = now
    /\ repHistory[1].timestamp < repHistory[MAX_REPS].timestamp
    /\ RepHistoryOrdered

(* C35: at most one breathing-analysis interval timer is live at any time and none
   while isActive is false: across activations, deactivations and exercise changes the
   timer's callback never runs, so never invokes analyzeBreathing, after a
   deactivation, and a reactivation does not leave two timers running *)
C35_OneBreathingTimer ==
    /\ Len(timer) <= 1
    /\ ~isActive => timer = <<>>
    /\ lastOp = "breathingTick" => isActive

(* C35 witness: the session has been reactivated after an earlier activation in which
   the timer fired and analyzed, and exactly one timer is live, a full interval ahead *)
C35_Witness ==
    /\ lastOp = "activate" /\ isActive
    /\ lastBreathingAnalysis > 0
    /\ timer = <<now + BREATHING_ANALYSIS_INTERVAL>>
====
